---- MODULE Spec2Model ----
(***************************************************************************)
(* Model of the yuchi command-line assistant: the conversation driver      *)
(* (ask_shapesai), the tool executor (run_tool) and the ask command.       *)
(*                                                                         *)
(* The repository holds two implementations of the driver and executor:    *)
(* the modular one (src/api.rs + src/commands.rs) and the single-file one  *)
(* (src/main.rs).  The variable `build` selects which one is running.      *)
(*                                                                         *)
(* Strings whose characters matter are sequences of lexemes.  A lexeme is  *)
(* one character, or a run of characters that no operation of the code     *)
(* ever splits ("echo", "<function>", " succeeded:\n").                    *)
(***************************************************************************)
EXTENDS Integers, Sequences, FiniteSets, TLC

\* ------------------------------------------------------------------ bounds
\* longest tool_calls array the remote service sends
MaxCalls == 2

\* --------------------------------------------------------- string helpers
None == "None"

Whitespace == {" ", "\t", "\n"}

RECURSIVE ToLower(_)
LowerChar(c) ==
    CASE c = "Y" -> "y"
      [] c = "N" -> "n"
      [] c = "T" -> "t"
      [] c = "E" -> "e"
      [] c = "X" -> "x"
      [] OTHER -> c
ToLower(s) == IF s = <<>> THEN <<>> ELSE <<LowerChar(Head(s))>> \o ToLower(Tail(s))

RECURSIVE TrimStart(_)
TrimStart(s) ==
    IF s # <<>> /\ Head(s) \in Whitespace THEN TrimStart(Tail(s)) ELSE s

RECURSIVE TrimEnd(_)
TrimEnd(s) ==
    IF s # <<>> /\ s[Len(s)] \in Whitespace
    THEN TrimEnd(SubSeq(s, 1, Len(s) - 1))
    ELSE s

Trim(s) == TrimEnd(TrimStart(s))

StartsWith(s, p) == Len(s) >= Len(p) /\ SubSeq(s, 1, Len(p)) = p

EndsWith(s, p) == Len(s) >= Len(p) /\ SubSeq(s, Len(s) - Len(p) + 1, Len(s)) = p

Contains(s, p) ==
    \E i \in 1..(Len(s) - Len(p) + 1) : SubSeq(s, i, i + Len(p) - 1) = p

\* str::split_whitespace: the maximal runs of non-whitespace lexemes
RECURSIVE SplitWs(_, _, _)
SplitWs(s, cur, acc) ==
    IF s = <<>>
    THEN IF cur = <<>> THEN acc ELSE Append(acc, cur)
    ELSE IF Head(s) \in Whitespace
         THEN SplitWs(Tail(s), <<>>, IF cur = <<>> THEN acc ELSE Append(acc, cur))
         ELSE SplitWs(Tail(s), Append(cur, Head(s)), acc)
\* mutant: a string without any word splits into one empty word
split_whitespace_one_empty(s) ==
    IF SplitWs(s, <<>>, <<>>) = <<>> THEN << <<>> >> ELSE SplitWs(s, <<>>, <<>>)

split_whitespace(s) == SplitWs(s, <<>>, <<>>)

\* String::from_utf8_lossy: an invalid byte becomes U+FFFD
RECURSIVE from_utf8_lossy(_)
from_utf8_lossy(b) ==
    IF b = <<>> THEN <<>>
    ELSE <<IF Head(b) = "\\xFF" THEN "U+FFFD" ELSE Head(b)>> \o from_utf8_lossy(Tail(b))

\* ------------------------------------------------------------ JSON texts
Quote == "\""
\* the backtick character
Tick == "BACKTICK"
KeyLexemes == {"\"command\"", "\"cmd\""}

JsonErr == [ok |-> FALSE, kind |-> "none", key |-> "", vkind |-> "none", vstr |-> <<>>]

\* a JSON scalar: a number, or a quoted string without escapes
ScalarOf(s) ==
    IF s = <<"1">>
    THEN [ok |-> TRUE, kind |-> "number", key |-> "", vkind |-> "none", vstr |-> <<>>]
    ELSE IF /\ Len(s) >= 2
            /\ s[1] = Quote
            /\ s[Len(s)] = Quote
            /\ \A i \in 2..(Len(s) - 1) : s[i] # Quote
         THEN [ok |-> TRUE, kind |-> "string", key |-> "", vkind |-> "none",
               vstr |-> SubSeq(s, 2, Len(s) - 1)]
         ELSE JsonErr

\* serde_json::from_str on the texts of this model: surrounding whitespace
\* is skipped; objects have zero or one member
from_str(text) ==
    LET s == Trim(text) IN
    IF s = <<"{", "}">>
    THEN [ok |-> TRUE, kind |-> "object", key |-> "", vkind |-> "none", vstr |-> <<>>]
    ELSE IF /\ Len(s) >= 5
            /\ s[1] = "{"
            /\ s[2] \in KeyLexemes
            /\ s[3] = ":"
            /\ s[Len(s)] = "}"
         THEN LET v == ScalarOf(Trim(SubSeq(s, 4, Len(s) - 1))) IN
              IF v.ok
              THEN [ok |-> TRUE, kind |-> "object", key |-> s[2],
                    vkind |-> v.kind, vstr |-> v.vstr]
              ELSE JsonErr
         ELSE ScalarOf(s)

\* args.get("command").and_then(|c| c.as_str())
HasCommand(v) ==
    v.ok /\ v.kind = "object" /\ v.key = "\"command\"" /\ v.vkind = "string"

\* ------------------------------------------------- values of the protocol
\* Option<String> of opaque strings (credentials, ids): None or the string
ApiError == "Api"
ConfigError == "Config"
ToolError == "Tool"
InputError == "Input"
ImageError == "Image"

NoResult == [kind |-> "none", err |-> "", text |-> <<>>]
Ok(text) == [kind |-> "Ok", err |-> "", text |-> text]
Err(e, text) == [kind |-> "Err", err |-> e, text |-> text]

\* a JSON value as far as the driver looks at it
JAbsent == [kind |-> "absent", str |-> <<>>]
JOther == [kind |-> "other", str |-> <<>>]
JStr(s) == [kind |-> "string", str |-> s]

\* one entry of a tool_calls array: its "id" and its "function"."arguments"
\* (fn = FALSE: the entry has no "function" member)
ToolCall(id, fn, arguments) == [id |-> id, fn |-> fn, arguments |-> arguments]

NoCalls == [kind |-> "absent", items |-> <<>>]
NotAnArray == [kind |-> "other", items |-> <<>>]
CallArray(items) == [kind |-> "array", items |-> items]

\* message contents
TextContent(s) == [kind |-> "text", text |-> s, flag |-> FALSE, url |-> <<>>]
PartsContent(s, u) == [kind |-> "parts", text |-> s, flag |-> FALSE, url |-> u]
ArrayContent(s, f) == [kind |-> "array", text |-> s, flag |-> f, url |-> <<>>]
NoContent == [kind |-> "absent", text |-> <<>>, flag |-> FALSE, url |-> <<>>]

UserMessage(content) ==
    [role |-> "user", content |-> content, tool_calls |-> <<>>, tool_call_id |-> <<>>]
AssistantMessage(calls) ==
    [role |-> "assistant", content |-> NoContent, tool_calls |-> calls, tool_call_id |-> <<>>]
ToolMessage(id, content) ==
    [role |-> "tool", content |-> content, tool_calls |-> <<>>, tool_call_id |-> id]

Header(name, value) == [name |-> name, value |-> value]

APP_ID == "3718bde3-c803-4bfc-b41b-3b5f0aa0ddd8"

tool_schemas == <<"run_shell_command">>

DefaultConfig ==
    [api_key |-> None, app_id |-> None, user_auth_token |-> None,
     username |-> None, user_id |-> None, channel_id |-> None]

\* ------------------------------------------------------------ progress bar
\* an indicatif::ProgressBar: no bar (src/main.rs has none), a ticking
\* spinner, or a bar that was finished and cleared.  finish_and_clear sets
\* the status of the bar to done-and-hidden, which stops the steady tick; a
\* bar in that status draws nothing, set_message only replaces its message
NoBar == [status |-> "none", message |-> <<>>]

\* src/ui.rs 40-50
display_progress == [status |-> "ticking", message |-> <<"Processing...">>]

set_message(p, m) == IF p.status = "none" THEN p ELSE [p EXCEPT !.message = m]

finish_and_clear(p) == IF p.status = "none" THEN p ELSE [p EXCEPT !.status = "done_hidden"]

\* pb.cloned().unwrap_or_else(|| display_progress())
pb_or_new(b, p) ==
    IF b = "main" THEN NoBar
    ELSE IF p.status = "none" THEN display_progress ELSE p

\* the spinner is on the terminal
shown(p) == p.status = "ticking"

Querying == <<"Querying ShapesAI...">>

\* ----------------------------------------------------------------- inputs
Prompts == { <<"h", "i">>, <<"T", "e", "X", "t", "?">> }
ApiKeys == {None, "key1"}
AuthTokens == {None, "tok1"}
DefaultModel == <<"shapesinc/", "ariwa">>
Models == {DefaultModel}
NoOverride == [some |-> FALSE, val |-> <<>>]
ModelOverrides == {NoOverride, [some |-> TRUE, val |-> <<"shapesinc/", "other">>]}

NoImage ==
    [some |-> FALSE, path |-> "", exists |-> FALSE, is_file |-> FALSE,
     readable |-> FALSE, ext |-> None, data |-> ""]
ImageFile(path, exists, is_file, readable, ext) ==
    [some |-> TRUE, path |-> path, exists |-> exists, is_file |-> is_file,
     readable |-> readable, ext |-> ext, data |-> "bytes"]
Images ==
    { NoImage,
      ImageFile("gone.png", FALSE, FALSE, FALSE, "png"),
      ImageFile("dir.png", TRUE, FALSE, FALSE, "png"),
      ImageFile("locked.png", TRUE, TRUE, FALSE, "png"),
      ImageFile("a.gif", TRUE, TRUE, TRUE, "gif"),
      ImageFile("A.PNG", TRUE, TRUE, TRUE, "PNG"),
      ImageFile("noext", TRUE, TRUE, TRUE, None),
      ImageFile("a.png", TRUE, TRUE, TRUE, "png"),
      ImageFile("a.jpg", TRUE, TRUE, TRUE, "jpg"),
      ImageFile("a.jpeg", TRUE, TRUE, TRUE, "jpeg") }

\* stored configurations the driver is started on
InitConfigs ==
    { DefaultConfig,
      [DefaultConfig EXCEPT !.api_key = "key1", !.user_id = "u1", !.channel_id = "ch1"],
      [DefaultConfig EXCEPT !.user_auth_token = "tok1", !.app_id = APP_ID,
                            !.user_id = "u1", !.channel_id = "ch1", !.username = "tenshi"],
      [DefaultConfig EXCEPT !.user_auth_token = "tok1", !.user_id = "u1", !.channel_id = "ch1"],
      [DefaultConfig EXCEPT !.user_auth_token = "tok1", !.api_key = "key1", !.app_id = APP_ID,
                            !.user_id = "u1", !.channel_id = "ch1"],
      [DefaultConfig EXCEPT !.user_id = "u1", !.channel_id = "ch1"] }

\* JSON texts of a tool call's arguments
ArgEchoHi == <<"{", "\"command\"", ":", Quote, "echo", " ", "hi", Quote, "}">>
ArgLs == <<" ", "{", "\"command\"", ":", " ", Quote, "ls", Quote, "}">>
ArgBlank == <<"{", "\"command\"", ":", Quote, " ", Quote, "}">>
ArgNoCommand == <<"{", "\"cmd\"", ":", Quote, "ls", Quote, "}">>
ArgNumber == <<"{", "\"command\"", ":", "1", "}">>
ArgNotObject == <<Quote, "ls", Quote>>
ArgGarbage == <<"{", "ls">>

GoodCalls ==
    { ToolCall(JStr(<<"c1">>), TRUE, JStr(ArgEchoHi)),
      ToolCall(JStr(<<"c2">>), TRUE, JStr(ArgLs)) }
BadCalls ==
    { ToolCall(JAbsent, TRUE, JStr(ArgEchoHi)),
      ToolCall(JOther, TRUE, JStr(ArgLs)),
      ToolCall(JStr(<<"c4">>), FALSE, JAbsent),
      ToolCall(JStr(<<"c5">>), TRUE, JAbsent),
      ToolCall(JStr(<<"c6">>), TRUE, JOther),
      ToolCall(JStr(<<"c7">>), TRUE, JStr(ArgGarbage)),
      ToolCall(JStr(<<"c8">>), TRUE, JStr(ArgNotObject)),
      ToolCall(JStr(<<"c9">>), TRUE, JStr(ArgNoCommand)),
      ToolCall(JStr(<<"c10">>), TRUE, JStr(ArgNumber)) }
Calls == GoodCalls \cup BadCalls

SeqsUpTo(S, n) == UNION { [1..k -> S] : k \in 0..n }

Open == "<function>"
Close == "</function>"
Contents ==
    { JAbsent, JOther,
      JStr(<<>>),
      JStr(<<"h", "e", "l", "l", "o">>),
      JStr(<<Open>> \o ArgEchoHi \o <<Close>>),
      JStr(<<Open>> \o ArgBlank \o <<Close>>),
      JStr(<<Open>> \o ArgNoCommand \o <<Close>>),
      JStr(<<Open>> \o ArgGarbage \o <<Close>>),
      JStr(<<Open>> \o ArgNotObject \o <<Close>>),
      JStr(<<Open>> \o ArgEchoHi \o <<Close, " ">>),
      JStr(<<" ", Open>> \o ArgEchoHi \o <<Close>>),
      JStr(<<Open>> \o ArgEchoHi) }

Statuses == {200, 201, 400, 403, 404, 429, 500}
\* res.text() failed: there is no body text to report
BodyReadError == <<"Err(reqwest::Error)">>
ErrorBodies == {<<"boom">>, <<"busy">>, BodyReadError}

\* a response: the send failed, or a status with a body; a success body
\* is unparsable or JSON; of the JSON the driver reads choices[0].message
SendFailed ==
    [sent |-> FALSE, status |-> 0, body |-> <<>>, parses |-> FALSE,
     message |-> FALSE, tool_calls |-> NoCalls, content |-> JAbsent]
StatusResponse(st, body) ==
    [sent |-> TRUE, status |-> st, body |-> body, parses |-> FALSE,
     message |-> FALSE, tool_calls |-> NoCalls, content |-> JAbsent]
JsonResponse(st, message, calls, content) ==
    [sent |-> TRUE, status |-> st, body |-> <<>>, parses |-> TRUE,
     message |-> message, tool_calls |-> calls, content |-> content]

\* no response received yet
NoResponse ==
    [sent |-> FALSE, status |-> -1, body |-> <<>>, parses |-> FALSE,
     message |-> FALSE, tool_calls |-> NoCalls, content |-> JAbsent]

FirstResponses ==
    {SendFailed}
    \cup { StatusResponse(st, b) : st \in Statuses, b \in ErrorBodies }
    \cup { JsonResponse(200, FALSE, NoCalls, JAbsent) }
    \cup { JsonResponse(st, TRUE, tc, c) :
             st \in {200, 201}, tc \in {NoCalls, NotAnArray}, c \in Contents }
    \cup { JsonResponse(200, TRUE, CallArray(a), JAbsent) : a \in SeqsUpTo(Calls, MaxCalls) }
    \cup { JsonResponse(200, TRUE, CallArray(a), JStr(<<Open>> \o ArgLs \o <<Close>>)) :
             a \in SeqsUpTo(Calls, 1) }

SecondResponses ==
    {SendFailed}
    \cup { StatusResponse(st, <<"boom">>) : st \in {200, 403, 404, 429, 500} }
    \cup { JsonResponse(200, FALSE, NoCalls, JAbsent) }
    \cup { JsonResponse(200, TRUE, NoCalls, c) :
             c \in {JAbsent, JOther, JStr(<<"d", "o", "n", "e">>)} }
    \cup { JsonResponse(200, TRUE,
                        CallArray(<<ToolCall(JStr(<<"c1">>), TRUE, JStr(ArgEchoHi))>>),
                        JStr(<<Open>> \o ArgEchoHi \o <<Close>>)) }

\* what the user types at the confirmation prompt: a y that has to be
\* trimmed and lower-cased, the other letter, and a word that begins with y
Answers ==
    { <<" ", "Y", "\n">>, <<"n">>, <<"y", "e", "s">> }

\* how the child process ends: it cannot be spawned, or it exits
SpawnFailure == [spawned |-> FALSE, success |-> FALSE, stdout |-> <<>>, stderr |-> <<>>]
Exit(success, stdout, stderr) ==
    [spawned |-> TRUE, success |-> success, stdout |-> stdout, stderr |-> stderr]
Outcomes ==
    { SpawnFailure,
      Exit(TRUE, <<"hi", "\\xFF", "\n">>, <<"warn">>),
      Exit(FALSE, <<"out">>, <<"oops", "\\xFF">>) }

\* ------------------------------------------------------------------ state
VARIABLES
    build,       \* "api": src/api.rs + src/commands.rs; "main": src/main.rs
    config,      \* the stored configuration (confy file "yuchi")
    caller,      \* "none", "direct" (ask_shapesai called with arguments) or "ask"
    args,        \* the arguments of the running ask_shapesai call
    pc,          \* where the call is blocked
    path,        \* branch taken on the first response
    messages,    \* the local `messages` vector
    requests,    \* every request handed to send(), in order
    tool_calls,  \* the tool_calls array being iterated
    idx,         \* 1-based position of the loop in tool_calls
    command,     \* argument of the running run_tool call
    call_id,     \* tool_call_id of the running run_tool call
    run_tools,   \* the commands run_tool was called with, in order
    prompts,     \* confirmation prompts shown, with the answer read
    spawns,      \* Command::output calls: program and arguments
    result,      \* what the call returned
    first,       \* the first response received
    second,      \* the second response received
    pb,          \* the progress bar of the call (indicatif::ProgressBar)
    outputs,     \* what Command::output returned, in order
    cli          \* the login / set_shape / logout command: its locals, its outcome

vars == <<build, config, caller, args, pc, path, messages, requests, tool_calls,
          idx, command, call_id, run_tools, prompts, spawns, result, first, second,
          pb, outputs, cli>>

NoArgs ==
    [prompt |-> <<>>, api_key |-> None, user_auth_token |-> None, model |-> <<>>,
     user_id |-> None, channel_id |-> None, image |-> NoImage]

\* the locals of the driver as one record, and their update
Cur ==
    [pc |-> pc, path |-> path, messages |-> messages, requests |-> requests,
     tool_calls |-> tool_calls, idx |-> idx, command |-> command,
     call_id |-> call_id, run_tools |-> run_tools, result |-> result, pb |-> pb]

Become(s) ==
    /\ pc' = s.pc
    /\ path' = s.path
    /\ messages' = s.messages
    /\ requests' = s.requests
    /\ tool_calls' = s.tool_calls
    /\ idx' = s.idx
    /\ command' = s.command
    /\ call_id' = s.call_id
    /\ run_tools' = s.run_tools
    /\ result' = s.result
    /\ pb' = s.pb

\* return from the call
Return(s, r) == [s EXCEPT !.pc = "done", !.result = r]

\* the locals of a call that has just been entered
FreshCall ==
    [pc |-> "idle", path |-> "none", messages |-> <<>>, requests |-> <<>>,
     tool_calls |-> <<>>, idx |-> 0, command |-> <<>>, call_id |-> <<>>,
     run_tools |-> <<>>, result |-> NoResult, pb |-> NoBar]

\* no login, set_shape or logout command has been run
NoCli ==
    [op |-> "none", local |-> DefaultConfig, secret |-> None, before |-> DefaultConfig,
     last |-> "none", outcome |-> NoResult, validated |-> NoResult, cleared |-> FALSE]

\* ------------------------------------------------------- ask_shapesai
Request(headers, model, msgs, tools, tool_choice) ==
    [headers |-> headers, model |-> model, messages |-> msgs,
     tools |-> tools, tool_choice |-> tool_choice]

\* tools member of a request body: the schemas, or no member at all
NoTools == <<>>

\* mutant: the prompt is searched as typed
adjusted_prompt_case_sensitive(a) ==
    IF a.image.some /\ Contains(a.prompt, <<"t", "e", "x", "t">>)
    THEN <<"Extract the text from this image: ">> \o a.prompt
    ELSE a.prompt

\* src/api.rs 49-53
adjusted_prompt(a) ==
    IF a.image.some /\ Contains(ToLower(a.prompt), <<"t", "e", "x", "t">>)
    THEN <<"Extract the text from this image: ">> \o a.prompt
    ELSE a.prompt

\* mutant: an unknown extension is sent as PNG
mime_type_default_png(ext) ==
    CASE ext \in {"jpg", "jpeg"} -> "image/jpeg"
      [] OTHER -> "image/png"

\* src/api.rs 70-79
mime_type(ext) ==
    CASE ext = "png" -> "image/png"
      [] ext \in {"jpg", "jpeg"} -> "image/jpeg"
      [] OTHER -> None

image_url(img) == <<"data:", mime_type(img.ext), ";base64,", "BASE64(", img.data, ")">>

user_message(a) ==
    IF a.image.some
    THEN UserMessage(PartsContent(adjusted_prompt(a), image_url(a.image)))
    ELSE UserMessage(TextContent(adjusted_prompt(a)))

TokenHeaders(a, app_id) ==
    << Header("X-App-ID", <<app_id>>), Header("X-User-Auth", <<a.user_auth_token>>) >>

KeyHeaders(a) ==
    << Header("X-User-ID", <<a.user_id>>), Header("X-Channel-ID", <<a.channel_id>>),
       Header("Authorization", <<"Bearer ", a.api_key>>) >>

NoAppId == Err(ConfigError, <<"No app ID set for user auth token.">>)
NoCredential == Err(ApiError, <<"No API key or user auth token provided.">>)
LoadFailed == Err(ConfigError, <<"confy">>)

Authed(h) == [ok |-> TRUE, err |-> NoResult, headers |-> h]
AuthErr(e) == [ok |-> FALSE, err |-> e, headers |-> <<>>]

\* mutant: without credentials the request is sent without headers
first_auth_no_else(a, cfg, loadOk) ==
    IF a.user_auth_token # None
    THEN IF ~loadOk THEN AuthErr(LoadFailed)
         ELSE IF cfg.app_id = None THEN AuthErr(NoAppId)
         ELSE Authed(TokenHeaders(a, cfg.app_id))
    ELSE IF a.api_key # None
    THEN Authed(KeyHeaders(a))
    ELSE Authed(<<>>)

\* mutant: the key headers are added in token mode too
first_auth_both(a, cfg, loadOk) ==
    IF a.user_auth_token # None
    THEN IF ~loadOk THEN AuthErr(LoadFailed)
         ELSE IF cfg.app_id = None THEN AuthErr(NoAppId)
         ELSE Authed(TokenHeaders(a, cfg.app_id)
                     \o (IF a.api_key # None THEN KeyHeaders(a) ELSE <<>>))
    ELSE IF a.api_key # None
    THEN Authed(KeyHeaders(a))
    ELSE AuthErr(NoCredential)

\* mutant: the key branch adds the stored application id
first_auth_stored_app_id(a, cfg, loadOk) ==
    IF a.user_auth_token # None
    THEN IF ~loadOk THEN AuthErr(LoadFailed)
         ELSE IF cfg.app_id = None THEN AuthErr(NoAppId)
         ELSE Authed(TokenHeaders(a, cfg.app_id))
    ELSE IF a.api_key # None
    THEN IF loadOk /\ cfg.app_id # None
         THEN Authed(<<Header("X-App-ID", <<cfg.app_id>>)>> \o KeyHeaders(a))
         ELSE Authed(KeyHeaders(a))
    ELSE AuthErr(NoCredential)

\* mutant: the built-in APP_ID is sent, the stored one is not looked at
first_auth_builtin_app_id(a, cfg, loadOk) ==
    IF a.user_auth_token # None
    THEN Authed(TokenHeaders(a, APP_ID))
    ELSE IF a.api_key # None
    THEN Authed(KeyHeaders(a))
    ELSE AuthErr(NoCredential)

\* src/api.rs 99-115: the headers of the first request, or the error
first_auth(a, cfg, loadOk) ==
    IF a.user_auth_token # None
    THEN IF ~loadOk THEN AuthErr(LoadFailed)
         ELSE IF cfg.app_id = None THEN AuthErr(NoAppId)
         ELSE Authed(TokenHeaders(a, cfg.app_id))
    ELSE IF a.api_key # None
    THEN Authed(KeyHeaders(a))
    ELSE AuthErr(NoCredential)

\* src/api.rs 191-203 and 276-288: the headers of the second request; there
\* is no final else, a request without credentials carries no header
second_auth_api(a, cfg, loadOk) ==
    IF a.user_auth_token # None
    THEN IF ~loadOk THEN AuthErr(LoadFailed)
         ELSE IF cfg.app_id = None THEN AuthErr(NoAppId)
         ELSE Authed(TokenHeaders(a, cfg.app_id))
    ELSE IF a.api_key # None
    THEN Authed(KeyHeaders(a))
    ELSE Authed(<<>>)

\* src/main.rs 448-465 and 520-537: the same with the final else
second_auth_main(a, cfg, loadOk) ==
    IF a.user_auth_token # None
    THEN IF ~loadOk THEN AuthErr(LoadFailed)
         ELSE IF cfg.app_id = None THEN AuthErr(NoAppId)
         ELSE Authed(TokenHeaders(a, cfg.app_id))
    ELSE IF a.api_key # None
    THEN Authed(KeyHeaders(a))
    ELSE AuthErr(NoCredential)

second_auth(b, a, cfg, loadOk) ==
    IF b = "main" THEN second_auth_main(a, cfg, loadOk) ELSE second_auth_api(a, cfg, loadOk)

\* src/api.rs 55-79: the Image error of an attached image, if any
image_check(img) ==
    IF img.some /\ ~(img.exists /\ img.is_file)
    THEN Err(ImageError, <<"Image file '", img.path, "' does not exist or is not a file">>)
    ELSE IF img.some /\ ~img.readable
    THEN Err(ImageError, <<"Failed to read image file '", img.path, "'">>)
    ELSE IF img.some /\ mime_type(img.ext) = None
    THEN Err(ImageError, <<"Unsupported image format for '", img.path,
                           "'. Use PNG or JPEG.">>)
    ELSE NoResult

\* src/api.rs 45-129: image checks, user message, authentication, first send
first_request(b, a, cfg, loadOk, s) ==
    IF image_check(a.image) # NoResult
    THEN Return(s, image_check(a.image))
    ELSE
      LET msgs == <<user_message(a)>>
          auth == first_auth(a, cfg, loadOk)
      IN IF ~auth.ok
         THEN Return([s EXCEPT !.messages = msgs], auth.err)
         ELSE [s EXCEPT !.pc = "await_first",
                        !.pb = set_message(pb_or_new(b, @), Querying),
                        !.messages = msgs,
                        !.requests = Append(@, Request(auth.headers, a.model, msgs,
                                                       tool_schemas, "auto"))]

\* mutant: the second request is built like the first
second_request_with_tools(b, a, cfg, loadOk, s) ==
    LET auth == second_auth(b, a, cfg, loadOk)
    IN IF ~auth.ok
       THEN Return(s, auth.err)
       ELSE [s EXCEPT !.pc = "await_second",
                      !.pb = set_message(@, Querying),
                      !.requests = Append(@, Request(auth.headers, a.model, s.messages,
                                                     tool_schemas, "auto"))]

\* src/api.rs 189-214 and 274-299 (src/main.rs 446-475, 518-547)
second_request(b, a, cfg, loadOk, s) ==
    LET auth == second_auth(b, a, cfg, loadOk)
    IN IF ~auth.ok
       THEN Return(s, auth.err)
       ELSE [s EXCEPT !.pc = "await_second",
                      !.pb = set_message(@, Querying),
                      !.requests = Append(@, Request(auth.headers, a.model, s.messages,
                                                     NoTools, "none"))]

\* mutant: the first string member of the arguments is taken as the command
parse_tool_call_any_key(tc) ==
    LET parsed == from_str(tc.arguments.str)
        bad(m) == [ok |-> FALSE, msg |-> m, id |-> <<>>, command |-> <<>>]
    IN IF tc.id.kind # "string" THEN bad(<<"Missing tool call ID">>)
       ELSE IF ~tc.fn \/ tc.arguments.kind = "absent" THEN bad(<<"Missing tool arguments">>)
       ELSE IF tc.arguments.kind # "string" THEN bad(<<"Tool arguments must be a JSON string">>)
       ELSE IF ~(parsed.ok /\ parsed.kind = "object")
       THEN bad(<<"Failed to parse tool arguments: ">>)
       ELSE IF parsed.vkind # "string" THEN bad(<<"Missing command parameter">>)
       ELSE [ok |-> TRUE, msg |-> <<>>, id |-> tc.id.str, command |-> parsed.vstr]

\* src/api.rs 162-179: id and command of one tool_calls entry
parse_tool_call(tc) ==
    LET parsed == from_str(tc.arguments.str)
        bad(m) == [ok |-> FALSE, msg |-> m, id |-> <<>>, command |-> <<>>]
    IN IF tc.id.kind # "string" THEN bad(<<"Missing tool call ID">>)
       ELSE IF ~tc.fn \/ tc.arguments.kind = "absent" THEN bad(<<"Missing tool arguments">>)
       ELSE IF tc.arguments.kind # "string" THEN bad(<<"Tool arguments must be a JSON string">>)
       ELSE IF ~(parsed.ok /\ parsed.kind = "object")
       THEN bad(<<"Failed to parse tool arguments: ">>)
       ELSE IF ~HasCommand(parsed) THEN bad(<<"Missing command parameter">>)
       ELSE [ok |-> TRUE, msg |-> <<>>, id |-> tc.id.str, command |-> parsed.vstr]

\* entering run_tool(command, ..)
call_run_tool(s, cmd, id) ==
    [s EXCEPT !.pc = "run_tool", !.command = cmd, !.call_id = id,
              !.run_tools = Append(@, cmd)]

\* mutant: every entry is parsed before the first one is run
next_tool_call_validate_first(b, a, cfg, loadOk, s) ==
    IF s.idx > Len(s.tool_calls)
    THEN second_request(b, a, cfg, loadOk, s)
    ELSE IF \E j \in s.idx..Len(s.tool_calls) : ~parse_tool_call(s.tool_calls[j]).ok
    THEN Return(s, Err(ApiError, <<"Missing command parameter">>))
    ELSE LET p == parse_tool_call(s.tool_calls[s.idx])
         IN call_run_tool(s, p.command, p.id)

\* mutant: the loop is left after the first entry
next_tool_call_first_only(b, a, cfg, loadOk, s) ==
    IF s.idx > Len(s.tool_calls) \/ s.idx > 1
    THEN second_request(b, a, cfg, loadOk, s)
    ELSE LET p == parse_tool_call(s.tool_calls[s.idx])
         IN IF ~p.ok THEN Return(s, Err(ApiError, p.msg))
            ELSE call_run_tool(s, p.command, p.id)

\* src/api.rs 161-187: the for loop, standing before entry s.idx
next_tool_call(b, a, cfg, loadOk, s) ==
    IF s.idx > Len(s.tool_calls)
    THEN second_request(b, a, cfg, loadOk, s)
    ELSE LET p == parse_tool_call(s.tool_calls[s.idx])
         IN IF ~p.ok THEN Return(s, Err(ApiError, p.msg))
            ELSE call_run_tool(s, p.command, p.id)

\* src/api.rs 185: "content": tool_result, where run_tool of src/commands.rs
\* returned the tuple (String, bool); serde_json serialises a tuple as an array
tool_result_json_api(text, succeeded) == ArrayContent(text, succeeded)

\* src/main.rs 442: "content": tool_result, where run_tool of src/main.rs
\* returned a String
tool_result_json_main(text, succeeded) == TextContent(text)

tool_result_json(b, text, succeeded) ==
    IF b = "main" THEN tool_result_json_main(text, succeeded)
    ELSE tool_result_json_api(text, succeeded)

\* src/api.rs 182-186 and 268-272: messages.push of the tool message
push_tool_message(msgs, id, content) == Append(msgs, ToolMessage(id, content))

\* mutant: the assistant message is left out
push_assistant_omitted(msgs, calls) == msgs

\* src/api.rs 156-159: messages.push of the assistant message
push_assistant(msgs, calls) == Append(msgs, AssistantMessage(calls))

\* mutant: a cancelled command ends the call
push_tool_result_abort_on_cancel(b, a, cfg, loadOk, s, text, succeeded) ==
    LET s1 == [s EXCEPT !.messages =
                   push_tool_message(@, s.call_id, tool_result_json(b, text, succeeded))]
    IN IF text = <<"Command execution cancelled by user.">>
       THEN Return(s1, Err(ToolError, text))
       ELSE IF s.path = "structured"
       THEN next_tool_call(b, a, cfg, loadOk, [s1 EXCEPT !.idx = @ + 1])
       ELSE second_request(b, a, cfg, loadOk, s1)

\* mutant: the loop does not move on to the next entry
push_tool_result_same_entry(b, a, cfg, loadOk, s, text, succeeded) ==
    LET s1 == [s EXCEPT !.messages =
                   push_tool_message(@, s.call_id, tool_result_json(b, text, succeeded))]
    IN IF s.path = "structured"
       THEN next_tool_call(b, a, cfg, loadOk, s1)
       ELSE second_request(b, a, cfg, loadOk, s1)

\* src/api.rs 181-187 and 267-273: the tool message, then the loop goes on
push_tool_result(b, a, cfg, loadOk, s, text, succeeded) ==
    LET s1 == [s EXCEPT !.messages =
                   push_tool_message(@, s.call_id, tool_result_json(b, text, succeeded))]
    IN IF s.path = "structured"
       THEN next_tool_call(b, a, cfg, loadOk, [s1 EXCEPT !.idx = @ + 1])
       ELSE second_request(b, a, cfg, loadOk, s1)

is_success(status) == status >= 200 /\ status <= 299

\* res.text().unwrap_or_else(|_| "No response body".to_string())
error_body(body) == IF body = BodyReadError THEN <<"No response body">> ELSE body

\* mutant: 404 gets the generic message
first_status_error_404_generic(status, body) ==
    CASE status = 429 -> <<"Blame Shapes, I got rate-limited. Try again later.">>
      [] status = 403 -> <<"I don't have access to the AccessVerse.">>
      [] OTHER -> <<"API request failed with status: ", ToString(status),
                    ". Response: ">> \o body

\* src/api.rs 135-140
first_status_error(status, body) ==
    CASE status = 429 -> <<"Blame Shapes, I got rate-limited. Try again later.">>
      [] status = 404 -> <<"The resource couldn't be found.">>
      [] status = 403 -> <<"I don't have access to the AccessVerse.">>
      [] OTHER -> <<"API request failed with status: ", ToString(status),
                    ". Response: ">> \o body

\* choices[0].message.content as a string, or the default
content_or(r, default) ==
    IF r.message /\ r.content.kind = "string" THEN r.content.str ELSE default

\* strip_prefix("<function>") and strip_suffix("</function>")
strip_envelope(content) == SubSeq(content, 2, Len(content) - 1)

\* src/api.rs 255-265: the command field of the JSON inside the envelope
fallback_command_api(content) ==
    LET parsed == from_str(strip_envelope(content))
        bad(m) == [ok |-> FALSE, msg |-> m, command |-> <<>>]
    IN IF ~parsed.ok THEN bad(<<"Failed to parse function arguments: ">>)
       ELSE IF ~HasCommand(parsed) THEN bad(<<"Missing command parameter">>)
       ELSE [ok |-> TRUE, msg |-> <<>>, command |-> parsed.vstr]

\* src/main.rs 506-511: the text inside the envelope is the command
fallback_command_main(content) ==
    [ok |-> TRUE, msg |-> <<>>, command |-> strip_envelope(content)]

fallback_command(b, content) ==
    IF b = "main" THEN fallback_command_main(content) ELSE fallback_command_api(content)

\* mutant: the closing tag is not looked at
is_envelope_open_only(content) == StartsWith(content, <<Open>>)

\* content is wrapped in the <function> envelope (src/api.rs 253)
is_envelope(content) == StartsWith(content, <<Open>>) /\ EndsWith(content, <<Close>>)

\* mutant: an empty tool_calls array is no tool request
interpretation_nonempty_array(r) ==
    IF r.message /\ r.tool_calls.kind = "array" /\ r.tool_calls.items # <<>>
    THEN "structured"
    ELSE IF is_envelope(content_or(r, <<>>)) THEN "fallback"
    ELSE "plain"

\* mutant: the envelope is looked for before the tool_calls array
interpretation_envelope_first(r) ==
    IF is_envelope(content_or(r, <<>>)) THEN "fallback"
    ELSE IF r.message /\ r.tool_calls.kind = "array" THEN "structured"
    ELSE "plain"

\* src/api.rs 147-154 and 245-253: which reading of the response applies
interpretation(r) ==
    IF r.message /\ r.tool_calls.kind = "array" THEN "structured"
    ELSE IF is_envelope(content_or(r, <<>>)) THEN "fallback"
    ELSE "plain"

\* src/api.rs 127-331: from the first response to the next blocking call
first_response(b, a, cfg, loadOk, s, r) ==
    IF ~r.sent
    THEN Return(s, Err(ApiError, <<"Failed to send request to ShapesAI API: ">>))
    ELSE IF ~is_success(r.status)
    THEN Return([s EXCEPT !.pb = finish_and_clear(@)],
                Err(ApiError, first_status_error(r.status, error_body(r.body))))
    ELSE IF ~r.parses
    THEN Return(s, Err(ApiError, <<"Failed to parse API response: ">>))
    ELSE IF interpretation(r) = "structured"
    THEN next_tool_call(b, a, cfg, loadOk,
             [s EXCEPT !.path = "structured",
                       !.pb = finish_and_clear(@),
                       !.messages = push_assistant(@, r.tool_calls.items),
                       !.tool_calls = r.tool_calls.items,
                       !.idx = 1])
    ELSE LET content == content_or(r, <<>>)
         IN IF interpretation(r) = "fallback"
            THEN IF Len(content) < 2
                 THEN Return([s EXCEPT !.pb = finish_and_clear(@)],
                             Err(ApiError, <<"Invalid function tag format">>))
                 ELSE LET f == fallback_command(b, content)
                          s1 == [s EXCEPT !.path = "fallback", !.pb = finish_and_clear(@)]
                      IN IF ~f.ok THEN Return(s1, Err(ApiError, f.msg))
                         ELSE call_run_tool(s1, f.command, <<"fallback">>)
            ELSE Return([s EXCEPT !.path = "plain", !.pb = finish_and_clear(@)],
                        Ok(content))

NoToolReply == <<"No response from tool execution.">>

\* mutant: a tool_calls array in the second response is run as well
second_response_reinterpreted(s, r) ==
    LET s1 == [s EXCEPT !.pb = finish_and_clear(@)]
    IN IF ~r.sent
       THEN Return(s, Err(ApiError, <<"Failed to send second request to ShapesAI API: ">>))
       ELSE IF ~is_success(r.status)
       THEN Return(s1, Err(ApiError, <<"Second API request failed with status: ",
                                       ToString(r.status), ". Response: ">>
                                     \o error_body(r.body)))
       ELSE IF ~r.parses
       THEN Return(s1, Err(ApiError, <<"Failed to parse second API response: ">>))
       ELSE IF interpretation(r) = "structured" /\ r.tool_calls.items # <<>>
                 /\ parse_tool_call(r.tool_calls.items[1]).ok
       THEN LET p == parse_tool_call(r.tool_calls.items[1])
            IN call_run_tool(s1, p.command, p.id)
       ELSE Return(s1, Ok(content_or(r, <<"No response from tool execution.">>)))

\* mutant: the second request's status gets the messages of the first
second_response_status_specific(s, r) ==
    LET s1 == [s EXCEPT !.pb = finish_and_clear(@)]
    IN IF ~r.sent
       THEN Return(s, Err(ApiError, <<"Failed to send second request to ShapesAI API: ">>))
       ELSE IF ~is_success(r.status)
       THEN Return(s1, Err(ApiError, first_status_error(r.status, error_body(r.body))))
       ELSE IF ~r.parses
       THEN Return(s1, Err(ApiError, <<"Failed to parse second API response: ">>))
       ELSE Return(s1, Ok(content_or(r, <<"No response from tool execution.">>)))

\* mutant: a second request that could not be sent is sent again
second_response_resend(s, r) ==
    LET s1 == [s EXCEPT !.pb = finish_and_clear(@)]
    IN IF ~r.sent
       THEN [s EXCEPT !.requests = Append(@, s.requests[Len(s.requests)])]
       ELSE IF ~is_success(r.status)
       THEN Return(s1, Err(ApiError, <<"Second API request failed with status: ",
                                       ToString(r.status), ". Response: ">>
                                     \o error_body(r.body)))
       ELSE IF ~r.parses
       THEN Return(s1, Err(ApiError, <<"Failed to parse second API response: ">>))
       ELSE Return(s1, Ok(content_or(r, NoToolReply)))

\* mutant: a reply without usable content is returned as the empty string
second_response_empty_default(s, r) ==
    LET s1 == [s EXCEPT !.pb = finish_and_clear(@)]
    IN IF ~r.sent
       THEN Return(s, Err(ApiError, <<"Failed to send second request to ShapesAI API: ">>))
       ELSE IF ~is_success(r.status)
       THEN Return(s1, Err(ApiError, <<"Second API request failed with status: ",
                                       ToString(r.status), ". Response: ">>
                                     \o error_body(r.body)))
       ELSE IF ~r.parses
       THEN Return(s1, Err(ApiError, <<"Failed to parse second API response: ">>))
       ELSE Return(s1, Ok(content_or(r, <<>>)))

\* src/api.rs 212-241 and 297-326
second_response(s, r) ==
    LET s1 == [s EXCEPT !.pb = finish_and_clear(@)]
    IN IF ~r.sent
       THEN Return(s, Err(ApiError, <<"Failed to send second request to ShapesAI API: ">>))
       ELSE IF ~is_success(r.status)
       THEN Return(s1, Err(ApiError, <<"Second API request failed with status: ",
                                       ToString(r.status), ". Response: ">>
                                     \o error_body(r.body)))
       ELSE IF ~r.parses
       THEN Return(s1, Err(ApiError, <<"Failed to parse second API response: ">>))
       ELSE Return(s1, Ok(content_or(r, NoToolReply)))

\* ------------------------------------------------------------- run_tool
CancelText == <<"Command execution cancelled by user.">>

\* mutant: every answer but "n" lets the command run
confirmed_anything_but_n(confirmation) == ToLower(Trim(confirmation)) # <<"n">>

\* src/commands.rs 199 (src/main.rs 60): the answer that lets the command run
confirmed(confirmation) == ToLower(Trim(confirmation)) = <<"y">>

\* mutant: the captured stdout is reported for a failed command too
run_tool_text_stdout_always(cmd, success, stdout, stderr) ==
    IF success
    THEN <<Tick>> \o cmd \o <<Tick, " succeeded:\n">> \o stdout
    ELSE <<Tick>> \o cmd \o <<Tick, " failed:\n">> \o stdout

\* src/commands.rs 222-226 (src/main.rs 78-82)
run_tool_text(cmd, success, stdout, stderr) ==
    IF success
    THEN <<Tick>> \o cmd \o <<Tick, " succeeded:\n">> \o stdout
    ELSE <<Tick>> \o cmd \o <<Tick, " failed:\n">> \o stderr

\* mutant: a command that cannot be spawned is reported like a failed one
run_tool_output_spawn_failure_reported(b, a, cfg, loadOk, s, o) ==
    push_tool_result(b, a, cfg, loadOk, [s EXCEPT !.pb = finish_and_clear(@)],
        run_tool_text(s.command, o.spawned /\ o.success, from_utf8_lossy(o.stdout),
                      from_utf8_lossy(o.stderr)),
        o.spawned /\ o.success)

\* src/commands.rs 213-231 (src/main.rs 70-82): from the return of
\* Command::output to the return of run_tool, and on in the driver
run_tool_output(b, a, cfg, loadOk, s, o) ==
    IF ~o.spawned
    THEN Return(s, Err(ToolError, <<"Failed to execute ", Tick>> \o s.command
                                  \o <<Tick, ": ">>))
    ELSE push_tool_result(b, a, cfg, loadOk, [s EXCEPT !.pb = finish_and_clear(@)],
             run_tool_text(s.command, o.success, from_utf8_lossy(o.stdout),
                           from_utf8_lossy(o.stderr)),
             o.success)

\* what the terminal gives run_tool: the working directory may be
\* unavailable, reading the answer may fail, or an answer is read
CwdFailure == [cwd_ok |-> FALSE, read_ok |-> FALSE, answer |-> <<>>]
ReadFailure == [cwd_ok |-> TRUE, read_ok |-> FALSE, answer |-> <<>>]
Answer(a) == [cwd_ok |-> TRUE, read_ok |-> TRUE, answer |-> a]
PromptInputs == {CwdFailure, ReadFailure} \cup { Answer(a) : a \in Answers }

\* ---------------------------------------------------------------- actions
Init ==
    /\ build \in {"api", "main"}
    /\ config \in InitConfigs
    /\ caller = "none"
    /\ args = NoArgs
    /\ pc = "idle"
    /\ path = "none"
    /\ messages = <<>>
    /\ requests = <<>>
    /\ tool_calls = <<>>
    /\ idx = 0
    /\ command = <<>>
    /\ call_id = <<>>
    /\ run_tools = <<>>
    /\ prompts = <<>>
    /\ spawns = <<>>
    /\ result = NoResult
    /\ first = NoResponse
    /\ second = NoResponse
    /\ pb = NoBar
    /\ outputs = <<>>
    /\ cli = NoCli

\* prompt and image of a call; src/main.rs has no image parameter
Question(p, img) == [prompt |-> p, image |-> img]
Questions(b) ==
    IF b = "api"
    THEN { Question(<<"h", "i">>, img) : img \in Images \ {ImageFile("a.png", TRUE, TRUE, TRUE, "png")} }
         \cup { Question(<<"T", "e", "X", "t", "?">>, img) :
                  img \in {NoImage, ImageFile("a.png", TRUE, TRUE, TRUE, "png"),
                           ImageFile("a.gif", TRUE, TRUE, TRUE, "gif")} }
    ELSE { Question(p, NoImage) : p \in Prompts }

\* ask_shapesai called with arguments of the caller
Invoke ==
    /\ pc = "idle"
    /\ \E q \in Questions(build), k \in ApiKeys, t \in AuthTokens, m \in Models,
          loadOk \in BOOLEAN :
         LET a == [prompt |-> q.prompt, api_key |-> k, user_auth_token |-> t, model |-> m,
                   user_id |-> "u1", channel_id |-> "ch1", image |-> q.image]
         IN /\ args' = a
            /\ caller' = "direct"
            /\ Become(first_request(build, a, config, loadOk, Cur))
    /\ UNCHANGED <<build, config, cli, prompts, spawns, first, second, outputs>>

\* mutant: the two ids are asked for in key mode only
ask_args_ids_for_key_only(cfg, question, model_override, img) ==
    LET default_model == IF cfg.username # None
                         THEN <<"shapesinc/", cfg.username>>
                         ELSE DefaultModel
        model == IF model_override.some THEN model_override.val ELSE default_model
        a == [prompt |-> question, api_key |-> None, user_auth_token |-> None,
              model |-> model, user_id |-> cfg.user_id, channel_id |-> cfg.channel_id,
              image |-> img]
        bad(m) == [ok |-> FALSE, err |-> Err(ConfigError, m), args |-> NoArgs]
    IN IF cfg.user_auth_token # None
       THEN [ok |-> TRUE, err |-> NoResult,
             args |-> [a EXCEPT !.user_auth_token = cfg.user_auth_token]]
       ELSE IF cfg.user_id = None
       THEN bad(<<"No user ID set. Run ", Tick, "yuchi --login", Tick, " first.">>)
       ELSE IF cfg.channel_id = None
       THEN bad(<<"No channel ID set. Run ", Tick, "yuchi --login", Tick, " first.">>)
       ELSE IF cfg.api_key # None
       THEN [ok |-> TRUE, err |-> NoResult, args |-> [a EXCEPT !.api_key = cfg.api_key]]
       ELSE bad(<<"No API key or user auth token set. Run ", Tick, "yuchi --login", Tick, " first.">>)

\* src/commands.rs 163-184 (src/main.rs 324-345): the arguments ask passes
\* on, or the Config error it returns itself
ask_args(cfg, question, model_override, img) ==
    LET default_model == IF cfg.username # None
                         THEN <<"shapesinc/", cfg.username>>
                         ELSE DefaultModel
        model == IF model_override.some THEN model_override.val ELSE default_model
        a == [prompt |-> question, api_key |-> None, user_auth_token |-> None,
              model |-> model, user_id |-> cfg.user_id, channel_id |-> cfg.channel_id,
              image |-> img]
        bad(m) == [ok |-> FALSE, err |-> Err(ConfigError, m), args |-> NoArgs]
    IN IF cfg.user_id = None THEN bad(<<"No user ID set. Run ", Tick, "yuchi --login", Tick, " first.">>)
       ELSE IF cfg.channel_id = None
       THEN bad(<<"No channel ID set. Run ", Tick, "yuchi --login", Tick, " first.">>)
       ELSE IF cfg.user_auth_token # None
       THEN [ok |-> TRUE, err |-> NoResult,
             args |-> [a EXCEPT !.user_auth_token = cfg.user_auth_token]]
       ELSE IF cfg.api_key # None
       THEN [ok |-> TRUE, err |-> NoResult, args |-> [a EXCEPT !.api_key = cfg.api_key]]
       ELSE bad(<<"No API key or user auth token set. Run ", Tick, "yuchi --login", Tick, " first.">>)

\* the ask command on the stored configuration
Ask ==
    /\ pc = "idle"
    /\ \E q \in Questions(build), mo \in ModelOverrides,
          loadOk0 \in BOOLEAN, loadOk \in BOOLEAN :
         LET c == ask_args(config, q.prompt, mo, q.image)
         IN /\ caller' = "ask"
            /\ IF ~loadOk0
               THEN args' = NoArgs /\ Become(Return(Cur, LoadFailed))
               ELSE IF ~c.ok
               THEN args' = NoArgs /\ Become(Return(Cur, c.err))
               ELSE /\ args' = c.args
                    /\ Become(first_request(build, c.args, config, loadOk,
                                            [Cur EXCEPT !.pb = pb_or_new(build, @)]))
    /\ UNCHANGED <<build, config, cli, prompts, spawns, first, second, outputs>>

\* the first response arrives
FirstResponse ==
    /\ pc = "await_first"
    /\ \E r \in FirstResponses, loadOk \in BOOLEAN :
         /\ first' = r
         /\ Become(first_response(build, args, config, loadOk, Cur, r))
    /\ UNCHANGED <<build, config, cli, caller, args, prompts, spawns, second, outputs>>

\* src/commands.rs 191-216 (src/main.rs 51-73): run_tool up to the spawn
Confirm ==
    /\ pc = "run_tool"
    /\ \E in \in PromptInputs, loadOk \in BOOLEAN :
         IF ~in.cwd_ok
         THEN /\ Become(Return(Cur, Err(ToolError, <<"current_dir">>)))
              /\ UNCHANGED <<prompts, spawns>>
         ELSE /\ prompts' = Append(prompts, [command |-> command, read_ok |-> in.read_ok,
                                             answer |-> in.answer])
              /\ IF ~in.read_ok
                 THEN /\ Become(Return(Cur, Err(InputError, <<"prompt_password">>)))
                      /\ UNCHANGED spawns
                 ELSE IF ~confirmed(in.answer)
                 THEN /\ Become(push_tool_result(build, args, config, loadOk, Cur,
                                                 CancelText, FALSE))
                      /\ UNCHANGED spawns
                 ELSE LET parts == split_whitespace(command)
                      IN IF parts = <<>>
                         THEN /\ Become(Return(Cur, Err(ToolError, <<"Empty command">>)))
                              /\ UNCHANGED spawns
                         ELSE /\ Become([Cur EXCEPT !.pc = "output"])
                              /\ spawns' = Append(spawns, [program |-> parts[1],
                                                           args |-> Tail(parts)])
    /\ UNCHANGED <<build, config, cli, caller, args, first, second, outputs>>

\* src/commands.rs 213-231 (src/main.rs 70-82): Command::output returns
ChildExit ==
    /\ pc = "output"
    /\ \E o \in Outcomes, loadOk \in BOOLEAN :
         /\ outputs' = Append(outputs, o)
         /\ Become(run_tool_output(build, args, config, loadOk, Cur, o))
    /\ UNCHANGED <<build, config, cli, caller, args, prompts, spawns, first, second>>

\* the second response arrives
SecondResponse ==
    /\ pc = "await_second"
    /\ \E r \in SecondResponses : second' = r /\ Become(second_response(Cur, r))
    /\ UNCHANGED <<build, config, cli, caller, args, prompts, spawns, first, outputs>>

Next ==
    \/ Invoke
    \/ Ask
    \/ FirstResponse
    \/ Confirm
    \/ ChildExit
    \/ SecondResponse

Spec == Init /\ [][Next]_vars

TypeOK ==
    /\ build \in {"api", "main"}
    /\ pc \in {"idle", "await_first", "run_tool", "output", "await_second", "done"}
    /\ path \in {"none", "structured", "fallback", "plain"}
    /\ caller \in {"none", "direct", "ask", "login", "set_shape"}
    /\ cli.op \in {"none", "login1", "login2", "set_shape"}
    /\ idx \in 0..(MaxCalls + 1)
    /\ Len(requests) <= 2

\* every blocking call returns: the send() of either request, the
\* confirmation prompt and Command::output. Whether ask_shapesai is called
\* at all is left open.
Returning ==
    /\ WF_vars(FirstResponse)
    /\ WF_vars(Confirm)
    /\ WF_vars(ChildExit)
    /\ WF_vars(SecondResponse)

\* an empty stored configuration and one that a token login has left
LiveConfigs ==
    { DefaultConfig,
      [DefaultConfig EXCEPT !.user_auth_token = "tok1", !.app_id = APP_ID,
                            !.user_id = "u1", !.channel_id = "ch1", !.username = "tenshi"] }

InitLive == Init /\ config \in LiveConfigs

SpecLive == InitLive /\ [][Next]_vars /\ Returning

\* ------------------------------------------- login, set_shape, logout
StoreFailed == Err(ConfigError, <<"confy::store">>)
TestPrompt == <<"T", "e", "s", "t">>

\* what is typed at "Choose authentication method": 1 and 2 with whitespace
\* around them, and something else
AuthMethods == { <<"1", "\n">>, <<" ", "2">>, <<"3">> }
\* what is typed at "Enter API key: " and "Enter the one-time code: "
KeyInputs == {" ", "key1"}
CodeInputs == {" ", "code1"}
Usernames == {"tenshi"}

\* the reply of POST https://api.shapes.inc/auth/nonce; auth_token is None
\* when the member is missing or not a string
NonceReply(sent, status, parses, token) ==
    [sent |-> sent, status |-> status, parses |-> parses, auth_token |-> token]
NonceReplies ==
    { NonceReply(FALSE, 0, FALSE, None),
      NonceReply(TRUE, 400, FALSE, None),
      NonceReply(TRUE, 200, FALSE, None),
      NonceReply(TRUE, 200, TRUE, None),
      NonceReply(TRUE, 200, TRUE, "tok1") }

\* what a run of login meets: all goes well up to the validation, or one
\* step fails
Smooth(method) ==
    [loadOk |-> TRUE, methodRead |-> TRUE, method |-> method, keyRead |-> TRUE,
     key |-> "key1", save1 |-> TRUE, save2 |-> TRUE, codeRead |-> TRUE,
     code |-> "code1", nonce |-> NonceReply(TRUE, 200, TRUE, "tok1")]
LoginInputs ==
    { Smooth(m) : m \in AuthMethods }
    \cup { [Smooth(m) EXCEPT !.loadOk = FALSE] : m \in AuthMethods }
    \cup { [Smooth(m) EXCEPT !.methodRead = FALSE] : m \in AuthMethods }
    \cup { [Smooth(m) EXCEPT !.save1 = FALSE] : m \in AuthMethods }
    \cup { [Smooth(m) EXCEPT !.save2 = FALSE] : m \in AuthMethods }
    \cup { [Smooth(<<"1", "\n">>) EXCEPT !.keyRead = FALSE] }
    \cup { [Smooth(<<"1", "\n">>) EXCEPT !.key = k] : k \in KeyInputs }
    \cup { [Smooth(<<" ", "2">>) EXCEPT !.codeRead = FALSE] }
    \cup { [Smooth(<<" ", "2">>) EXCEPT !.code = c] : c \in CodeInputs }
    \cup { [Smooth(<<" ", "2">>) EXCEPT !.nonce = n] : n \in NonceReplies }

\* src/commands.rs 31-38 and 60-67: Uuid::new_v4() where no id is stored
with_ids(cfg) ==
    [cfg EXCEPT !.user_id = IF @ = None THEN "u1" ELSE @,
                !.channel_id = IF @ = None THEN "ch1" ELSE @]

\* the command returns before it calls ask_shapesai / goes on to call it
Returns(stored, r) ==
    [returned |-> TRUE, stored |-> stored, result |-> r, op |-> "none",
     local |-> stored, secret |-> None, args |-> NoArgs]
Validates(op, stored, secret, a) ==
    [returned |-> FALSE, stored |-> stored, result |-> NoResult, op |-> op,
     local |-> stored, secret |-> secret, args |-> a]

ValidationArgs(key, token, model, cfg) ==
    [prompt |-> TestPrompt, api_key |-> key, user_auth_token |-> token, model |-> model,
     user_id |-> cfg.user_id, channel_id |-> cfg.channel_id, image |-> NoImage]

\* src/commands.rs 56-108 (src/main.rs 220-276): method 2 up to the token
login_token(cfg, in) ==
    LET c1 == [cfg EXCEPT !.app_id = APP_ID]
        c2 == with_ids(c1)
    IN IF ~in.save1 THEN Returns(cfg, StoreFailed)
       ELSE IF ~in.save2 THEN Returns(c1, StoreFailed)
       ELSE IF ~in.codeRead THEN Returns(c2, Err(InputError, <<"prompt_password">>))
       ELSE IF Trim(<<in.code>>) = <<>>
       THEN Returns(c2, Err(InputError, <<"One-time code cannot be empty">>))
       ELSE IF ~in.nonce.sent
       THEN Returns(c2, Err(ApiError, <<"Failed to exchange one-time code: ">>))
       ELSE IF ~is_success(in.nonce.status)
       THEN Returns(c2, Err(ApiError, <<"Failed to exchange one-time code with status: ",
                                       ToString(in.nonce.status)>>))
       ELSE IF ~in.nonce.parses
       THEN Returns(c2, Err(ApiError, <<"Failed to parse auth token response: ">>))
       ELSE IF in.nonce.auth_token = None
       THEN Returns(c2, Err(ApiError, <<"Missing auth_token in response">>))
       ELSE Validates("login2", c2, in.nonce.auth_token,
                      ValidationArgs(None, in.nonce.auth_token, DefaultModel, c2))

\* mutant: the key is stored together with the generated ids
login_store_early(cfg, in) ==
    IF ~in.loadOk THEN Returns(cfg, LoadFailed)
    ELSE IF ~in.methodRead THEN Returns(cfg, Err(InputError, <<"prompt_password">>))
    ELSE IF Trim(in.method) = <<"1">>
    THEN IF ~in.keyRead THEN Returns(cfg, Err(InputError, <<"prompt_password">>))
         ELSE IF Trim(<<in.key>>) = <<>>
         THEN Returns(cfg, Err(InputError, <<"API key cannot be empty">>))
         ELSE IF ~in.save1 THEN Returns(cfg, StoreFailed)
         ELSE LET c1 == [with_ids(cfg) EXCEPT !.api_key = in.key]
              IN Validates("login1", c1, in.key,
                           ValidationArgs(in.key, None, DefaultModel, c1))
    ELSE IF Trim(in.method) = <<"2">>
    THEN login_token(cfg, in)
    ELSE Returns(cfg, Err(InputError, <<"Invalid authentication method.">>))

\* src/commands.rs 17-45 and 56-108 (src/main.rs 159-207 and 220-276): login
\* up to its ask_shapesai call
login(cfg, in) ==
    IF ~in.loadOk THEN Returns(cfg, LoadFailed)
    ELSE IF ~in.methodRead THEN Returns(cfg, Err(InputError, <<"prompt_password">>))
    ELSE IF Trim(in.method) = <<"1">>
    THEN IF ~in.keyRead THEN Returns(cfg, Err(InputError, <<"prompt_password">>))
         ELSE IF Trim(<<in.key>>) = <<>>
         THEN Returns(cfg, Err(InputError, <<"API key cannot be empty">>))
         ELSE IF ~in.save1 THEN Returns(cfg, StoreFailed)
         ELSE LET c1 == with_ids(cfg)
              IN Validates("login1", c1, in.key,
                           ValidationArgs(in.key, None, DefaultModel, c1))
    ELSE IF Trim(in.method) = <<"2">>
    THEN login_token(cfg, in)
    ELSE Returns(cfg, Err(InputError, <<"Invalid authentication method.">>))

\* the stored configuration and the result a command ends with
Ends(stored, r) == [stored |-> stored, result |-> r]

\* mutant: the token login leaves the stored key in place
login_validated_key_kept(c, stored, r, saveOk) ==
    IF r.kind = "Err" THEN Ends(stored, r)
    ELSE IF r.text = <<>>
    THEN Ends(stored, Err(ApiError, <<"validation failed: No response received">>))
    ELSE IF ~saveOk THEN Ends(stored, StoreFailed)
    ELSE IF c.op = "login1"
    THEN Ends([c.local EXCEPT !.api_key = c.secret, !.app_id = None,
                              !.user_auth_token = None], Ok(<<>>))
    ELSE Ends([c.local EXCEPT !.user_auth_token = c.secret], Ok(<<>>))

\* mutant: the key login clears the application id and leaves the token
login_validated_token_kept(c, stored, r, saveOk) ==
    IF r.kind = "Err" THEN Ends(stored, r)
    ELSE IF r.text = <<>>
    THEN Ends(stored, Err(ApiError, <<"validation failed: No response received">>))
    ELSE IF ~saveOk THEN Ends(stored, StoreFailed)
    ELSE IF c.op = "login1"
    THEN Ends([c.local EXCEPT !.api_key = c.secret, !.app_id = None], Ok(<<>>))
    ELSE Ends([c.local EXCEPT !.user_auth_token = c.secret, !.api_key = None], Ok(<<>>))

\* src/commands.rs 45-55 and 109-119 (src/main.rs 207-219 and 277-288): login
\* from the return of its ask_shapesai call
login_validated(c, stored, r, saveOk) ==
    IF r.kind = "Err" THEN Ends(stored, r)
    ELSE IF r.text = <<>>
    THEN Ends(stored, Err(ApiError, <<"validation failed: No response received">>))
    ELSE IF ~saveOk THEN Ends(stored, StoreFailed)
    ELSE IF c.op = "login1"
    THEN Ends([c.local EXCEPT !.api_key = c.secret, !.app_id = None,
                              !.user_auth_token = None], Ok(<<>>))
    ELSE Ends([c.local EXCEPT !.user_auth_token = c.secret, !.api_key = None], Ok(<<>>))

\* src/commands.rs 127-141 (src/main.rs 294-309): set_shape up to its
\* ask_shapesai call
set_shape(cfg, loadOk, username) ==
    LET model == <<"shapesinc/", username>>
    IN IF ~loadOk THEN Returns(cfg, LoadFailed)
       ELSE IF cfg.user_id = None
       THEN Returns(cfg, Err(ConfigError, <<"No user ID set. Run ", Tick, "yuchi --login",
                                           Tick, " first.">>))
       ELSE IF cfg.channel_id = None
       THEN Returns(cfg, Err(ConfigError, <<"No channel ID set. Run ", Tick,
                                           "yuchi --login", Tick, " first.">>))
       ELSE IF cfg.user_auth_token # None
       THEN Validates("set_shape", cfg, username,
                      ValidationArgs(None, cfg.user_auth_token, model, cfg))
       ELSE IF cfg.api_key # None
       THEN Validates("set_shape", cfg, username,
                      ValidationArgs(cfg.api_key, None, model, cfg))
       ELSE Returns(cfg, Err(ConfigError, <<"No API key or user auth token set. Run ",
                                           Tick, "yuchi --login", Tick, " first.">>))

\* src/commands.rs 143-153 (src/main.rs 311-321): set_shape from the return
\* of its ask_shapesai call; the configuration is loaded again
set_shape_validated(c, stored, r, loadOk, saveOk) ==
    IF r.kind = "Err" THEN Ends(stored, r)
    ELSE IF r.text = <<>>
    THEN Ends(stored, Err(ApiError, <<"Username validation failed: No response received.">>))
    ELSE IF ~loadOk THEN Ends(stored, LoadFailed)
    ELSE IF ~saveOk THEN Ends(stored, StoreFailed)
    ELSE Ends([stored EXCEPT !.username = c.secret], Ok(<<>>))

\* mutant: logout clears the credentials and leaves the rest
logout_credentials_only(stored, saveOk) ==
    IF saveOk
    THEN Ends([stored EXCEPT !.api_key = None, !.app_id = None, !.user_auth_token = None],
              Ok(<<>>))
    ELSE Ends(stored, StoreFailed)

\* src/commands.rs 156-161 (src/main.rs 141-147)
logout(stored, saveOk) ==
    IF saveOk THEN Ends(DefaultConfig, Ok(<<>>)) ELSE Ends(stored, StoreFailed)

\* the command is over: its process ends, its outcome is on the terminal.
\* cleared: a logout has succeeded and no login has succeeded since
Finished(op, before, outcome, validated) ==
    [op |-> "none", local |-> DefaultConfig, secret |-> None, before |-> before,
     last |-> op, outcome |-> outcome, validated |-> validated,
     cleared |-> IF outcome.kind # "Ok" THEN cli.cleared
                 ELSE IF op = "logout" THEN TRUE
                 ELSE IF op \in {"login1", "login2"} THEN FALSE
                 ELSE cli.cleared]

Running(o, before) ==
    [op |-> o.op, local |-> o.local, secret |-> o.secret, before |-> before,
     last |-> "none", outcome |-> NoResult, validated |-> NoResult,
     cleared |-> cli.cleared]

\* a command goes from its start to its first blocking call or to its end
Start(caller_name, last_name, o, loadOk) ==
    /\ config' = o.stored
    /\ IF o.returned
       THEN /\ cli' = Finished(last_name, config, o.result, NoResult)
            /\ caller' = "none"
            /\ args' = NoArgs
            /\ Become(FreshCall)
       ELSE /\ cli' = Running(o, config)
            /\ caller' = caller_name
            /\ args' = o.args
            /\ Become(first_request(build, o.args, o.stored, loadOk,
                                    [FreshCall EXCEPT !.pb = pb_or_new(build, @)]))
    /\ UNCHANGED <<build, prompts, spawns, first, second, outputs>>

\* a command ends after its ask_shapesai call
End(e) ==
    /\ config' = e.stored
    /\ cli' = Finished(cli.op, cli.before, e.result, result)
    /\ caller' = "none"
    /\ args' = NoArgs
    /\ Become(FreshCall)
    /\ prompts' = <<>>
    /\ spawns' = <<>>
    /\ outputs' = <<>>
    /\ first' = NoResponse
    /\ second' = NoResponse
    /\ UNCHANGED build

Login ==
    /\ pc = "idle"
    /\ \E in \in LoginInputs, loadOk \in BOOLEAN :
         Start("login", "login", login(config, in), loadOk)

LoginReturn ==
    /\ pc = "done"
    /\ caller = "login"
    /\ \E saveOk \in BOOLEAN : End(login_validated(cli, config, result, saveOk))

SetShape ==
    /\ pc = "idle"
    /\ \E loadOk0 \in BOOLEAN, u \in Usernames, loadOk \in BOOLEAN :
         Start("set_shape", "set_shape", set_shape(config, loadOk0, u), loadOk)

SetShapeReturn ==
    /\ pc = "done"
    /\ caller = "set_shape"
    /\ \E loadOk \in BOOLEAN, saveOk \in BOOLEAN :
         End(set_shape_validated(cli, config, result, loadOk, saveOk))

Logout ==
    /\ pc = "idle"
    /\ \E saveOk \in BOOLEAN :
         LET e == logout(config, saveOk)
         IN /\ config' = e.stored
            /\ cli' = Finished("logout", config, e.result, NoResult)
    /\ UNCHANGED <<build, caller, args, pc, path, messages, requests, tool_calls, idx,
                   command, call_id, run_tools, prompts, spawns, result, first, second,
                   pb, outputs>>

\* the commands run one after the other on an empty stored configuration
InitCli == Init /\ config = DefaultConfig

NextCli ==
    \/ Login
    \/ LoginReturn
    \/ SetShape
    \/ SetShapeReturn
    \/ Logout
    \/ FirstResponse
    \/ Confirm
    \/ ChildExit
    \/ SecondResponse

SpecCli == InitCli /\ [][NextCli]_vars

\* ------------------------------------------------ ask on a stored file
\* what confy::load can read from the file: every member is an Option, so a
\* credential may be stored without one or both of the ids
AskConfigs ==
    { DefaultConfig,
      [DefaultConfig EXCEPT !.api_key = "key1", !.user_id = "u1", !.channel_id = "ch1"],
      [DefaultConfig EXCEPT !.api_key = "key1", !.channel_id = "ch1"],
      [DefaultConfig EXCEPT !.api_key = "key1", !.user_id = "u1"],
      [DefaultConfig EXCEPT !.user_auth_token = "tok1", !.app_id = APP_ID,
                            !.user_id = "u1", !.channel_id = "ch1"],
      [DefaultConfig EXCEPT !.user_auth_token = "tok1", !.app_id = APP_ID,
                            !.channel_id = "ch1"],
      [DefaultConfig EXCEPT !.user_auth_token = "tok1", !.app_id = APP_ID,
                            !.user_id = "u1"],
      [DefaultConfig EXCEPT !.user_auth_token = "tok1", !.app_id = APP_ID] }

InitAsk ==
    /\ build \in {"api", "main"}
    /\ config \in AskConfigs
    /\ caller = "none"
    /\ args = NoArgs
    /\ pc = "idle"
    /\ path = "none"
    /\ messages = <<>>
    /\ requests = <<>>
    /\ tool_calls = <<>>
    /\ idx = 0
    /\ command = <<>>
    /\ call_id = <<>>
    /\ run_tools = <<>>
    /\ prompts = <<>>
    /\ spawns = <<>>
    /\ result = NoResult
    /\ first = NoResponse
    /\ second = NoResponse
    /\ pb = NoBar
    /\ outputs = <<>>
    /\ cli = NoCli

NextAsk ==
    \/ Ask
    \/ FirstResponse
    \/ Confirm
    \/ ChildExit
    \/ SecondResponse

SpecAsk == InitAsk /\ [][NextAsk]_vars

\* ------------------------------------------------------------------ claims
\* the tool messages appended so far, in order
ToolMessages == SelectSeq(messages, LAMBDA m : m.role = "tool")

\* the answer is a single y or Y, surrounded by nothing but whitespace
AnsweredYes(answer) ==
    \E i \in 1..Len(answer) :
        /\ answer[i] \in {"y", "Y"}
        /\ \A j \in (1..Len(answer)) \ {i} : answer[j] \in Whitespace

YesPrompts == SelectSeq(prompts, LAMBDA p : p.read_ok /\ AnsweredYes(p.answer))

\* C1: run_tool spawns a child process only for a command whose confirmation
\* prompt was answered "y" (case-insensitive); every other answer makes it
\* return Ok("Command execution cancelled by user.", false) - seen as the
\* tool message appended for that prompt - and spawns nothing.
C1_SpawnOnlyAfterYes ==
    /\ Len(spawns) <= Len(YesPrompts)
    /\ \A i \in 1..Len(spawns) :
           <<spawns[i].program>> \o spawns[i].args = split_whitespace(YesPrompts[i].command)
    /\ \A i \in 1..Len(prompts) :
           (prompts[i].read_ok /\ ~AnsweredYes(prompts[i].answer)) =>
               /\ i <= Len(ToolMessages)
               /\ ToolMessages[i].content.text = CancelText
               /\ ToolMessages[i].content.flag = FALSE
               /\ Len(spawns) < Len(prompts)

\* a prompt answered "yes" was cancelled and a later command was spawned
C1_Witness ==
    /\ Len(spawns) >= 1
    /\ \E i \in 1..Len(prompts) : prompts[i].answer = <<"y", "e", "s">>
    /\ Len(ToolMessages) >= 1
    /\ ToolMessages[1].content.text = CancelText

\* C2: on the structured path the second request's messages are the user
\* message, one assistant message holding the original tool_calls array, then
\* one tool message per entry in array order with the entry's id.
C2_SecondRequestMessages ==
    (path = "structured" /\ Len(requests) = 2) =>
        LET m == requests[2].messages
            items == first.tool_calls.items
        IN /\ Len(m) = 2 + Len(items)
           /\ m[1] = requests[1].messages[1]
           /\ m[1].role = "user"
           /\ m[2].role = "assistant"
           /\ m[2].tool_calls = items
           /\ \A i \in 1..Len(items) :
                  /\ m[2 + i].role = "tool"
                  /\ items[i].id.kind = "string"
                  /\ m[2 + i].tool_call_id = items[i].id.str

\* a second request was sent for an array of two entries with different ids
C2_Witness ==
    /\ path = "structured"
    /\ Len(requests) = 2
    /\ Len(first.tool_calls.items) = 2
    /\ first.tool_calls.items[1].id # first.tool_calls.items[2].id

\* C3: the content of every tool message is the executor's outcome text, a
\* single text value: the cancellation text or one of the two templates
\* around the command.
C3_ToolContentIsText ==
    \A i \in 1..Len(ToolMessages) :
        LET c == ToolMessages[i].content
        IN /\ c.kind = "text"
           /\ \/ c.text = CancelText
              \/ StartsWith(c.text, <<Tick>> \o run_tools[i] \o <<Tick, " succeeded:\n">>)
              \/ StartsWith(c.text, <<Tick>> \o run_tools[i] \o <<Tick, " failed:\n">>)

\* the first response was received with a success status and parsed
FirstOk == first.sent /\ first.status \in 200..299 /\ first.parses

\* ... and its message has a tool_calls array
FirstHasArray == FirstOk /\ first.message /\ first.tool_calls.kind = "array"

\* ... and its content is a string that begins with <function> and ends
\* with </function>
FirstEnveloped ==
    /\ FirstOk
    /\ first.message
    /\ first.content.kind = "string"
    /\ Len(first.content.str) >= 2
    /\ first.content.str[1] = Open
    /\ first.content.str[Len(first.content.str)] = Close

\* the JSON text between the two tags of the first response's content
FirstInner == SubSeq(first.content.str, 2, Len(first.content.str) - 1)

\* the content of a successful JSON response as a string, if it is one
ContentString(r) == r.message /\ r.content.kind = "string"

\* C4: with no tool_calls array and a content wrapped exactly in the
\* <function> envelope (around a JSON object with a string command), the
\* executor is invoked exactly once with the command field of that JSON, the
\* second request's messages are the user message and one tool message with
\* tool_call_id "fallback", and the second response's content is returned.
C4_FallbackRunsCommandField ==
    (FirstEnveloped /\ ~FirstHasArray /\ HasCommand(from_str(FirstInner))) =>
        /\ run_tools = << from_str(FirstInner).vstr >>
        /\ Len(requests) = 2 =>
              /\ Len(requests[2].messages) = 2
              /\ requests[2].messages[1] = requests[1].messages[1]
              /\ requests[2].messages[2].role = "tool"
              /\ requests[2].messages[2].tool_call_id = <<"fallback">>
        /\ (pc = "done" /\ second.sent /\ second.status \in 200..299 /\ second.parses) =>
              result = Ok(IF ContentString(second) THEN second.content.str ELSE NoToolReply)

\* C5: first match wins. A response with a tool_calls array is read as
\* structured (assistant message second, the commands of the array's entries
\* run) even if its content is an envelope; the fallback path is taken only
\* without a tool_calls array.
C5_FirstMatchWins ==
    /\ FirstHasArray =>
          /\ path = "structured"
          /\ Len(messages) >= 2
          /\ messages[2].role = "assistant"
          /\ messages[2].tool_calls = first.tool_calls.items
          /\ Len(run_tools) <= Len(first.tool_calls.items)
          /\ \A i \in 1..Len(run_tools) :
                 run_tools[i] = from_str(first.tool_calls.items[i].arguments.str).vstr
    /\ path = "fallback" =>
          /\ ~FirstHasArray
          /\ \A i \in 1..Len(messages) : messages[i].role # "assistant"

\* a response with both an array and an envelope: the array's command ran
C5_Witness ==
    /\ FirstHasArray
    /\ FirstEnveloped
    /\ path = "structured"
    /\ run_tools = << <<"echo", " ", "hi">> >>
    /\ from_str(FirstInner).vstr = <<"ls">>

\* C6: with neither a tool_calls array nor an envelope-wrapped content the
\* first choice's content is returned verbatim (empty if absent), after one
\* request, no run_tool call and no prompt.
C6_PlainContentVerbatim ==
    (FirstOk /\ ~FirstHasArray /\ ~FirstEnveloped) =>
        /\ result = Ok(IF ContentString(first) THEN first.content.str ELSE <<>>)
        /\ pc = "done"
        /\ Len(requests) = 1
        /\ run_tools = <<>>
        /\ prompts = <<>>
        /\ spawns = <<>>

\* a content that opens the envelope but does not close it was returned
C6_Witness ==
    /\ FirstOk
    /\ ~FirstHasArray
    /\ ContentString(first)
    /\ Len(first.content.str) > 1
    /\ first.content.str[1] = Open
    /\ first.content.str[Len(first.content.str)] # Close
    /\ result = Ok(first.content.str)

\* the attached image cannot be used: missing, not a file, unreadable or of
\* another extension than png, jpg, jpeg
ImageUnusable ==
    /\ args.image.some
    /\ \/ ~args.image.exists
       \/ ~args.image.is_file
       \/ ~args.image.readable
       \/ args.image.ext \notin {"png", "jpg", "jpeg"}

NoCredentialArgs == args.api_key = None /\ args.user_auth_token = None
NoCredentialStored == config.api_key = None /\ config.user_auth_token = None

\* C7 as stated: without API key and auth token the request fails with an
\* Api error (a Config error when the ask command detects it from the stored
\* configuration) and no network call is attempted.
C7_NoCredentialApiError ==
    /\ (caller = "direct" /\ NoCredentialArgs) =>
           result.kind = "Err" /\ result.err = ApiError /\ requests = <<>>
    /\ (caller = "ask" /\ NoCredentialStored) =>
           result.kind = "Err" /\ result.err = ConfigError /\ requests = <<>>

\* C7 amended: without API key and auth token no network call is attempted
\* and the request fails: with an Image error if an attached image cannot be
\* used (the image is checked first), with an Api error otherwise, and with a
\* Config error when the ask command detects it from the stored configuration.
C7_NoCredentialNoRequest ==
    /\ (caller = "direct" /\ NoCredentialArgs) =>
           /\ result.kind = "Err"
           /\ result.err = (IF ImageUnusable THEN ImageError ELSE ApiError)
           /\ requests = <<>>
           /\ pc = "done"
    /\ (caller = "ask" /\ NoCredentialStored) =>
           /\ result.kind = "Err"
           /\ result.err = ConfigError
           /\ requests = <<>>
           /\ pc = "done"

\* ask_shapesai was called without credentials and with a usable image
C7_Witness ==
    /\ caller = "direct"
    /\ NoCredentialArgs
    /\ args.image.some
    /\ ~ImageUnusable
    /\ result = NoCredential

\* C8: an image path that does not exist, is not a regular file or has
\* another extension than png/jpg/jpeg makes ask_shapesai fail with an Image
\* error, without network call and without tool execution.
C8_InvalidImage ==
    (/\ args.image.some
     /\ \/ ~args.image.exists
        \/ ~args.image.is_file
        \/ args.image.ext \notin {"png", "jpg", "jpeg"}) =>
        /\ pc = "done"
        /\ result.kind = "Err"
        /\ result.err = ImageError
        /\ requests = <<>>
        /\ run_tools = <<>>
        /\ prompts = <<>>
        /\ spawns = <<>>

\* an existing, readable file with extension gif was refused
C8_Witness ==
    /\ args.image.some
    /\ args.image.exists /\ args.image.is_file /\ args.image.readable
    /\ args.image.ext = "gif"
    /\ result.kind = "Err"
    /\ result.err = ImageError

HeaderNames(r) == { r.headers[i].name : i \in 1..Len(r.headers) }
TokenScheme == {"X-App-ID", "X-User-Auth"}
KeyScheme == {"X-User-ID", "X-Channel-ID", "Authorization"}

\* C9: every request sent carries the headers of exactly one scheme; with
\* both a token and an API key at hand token mode is used and the key is
\* not sent.
C9_OneScheme ==
    \A i \in 1..Len(requests) :
        LET r == requests[i]
        IN /\ HeaderNames(r) \in {TokenScheme, KeyScheme}
           /\ Len(r.headers) = Cardinality(HeaderNames(r))
           /\ args.user_auth_token # None =>
                  /\ HeaderNames(r) = TokenScheme
                  /\ \A h \in 1..Len(r.headers) :
                         \A k \in 1..Len(r.headers[h].value) :
                             r.headers[h].value[k] # args.api_key
           /\ (caller = "ask" /\ config.user_auth_token # None) =>
                  HeaderNames(r) = TokenScheme
           /\ (args.user_auth_token = None) => HeaderNames(r) = KeyScheme

\* both requests were sent by a call that held a token and an API key
C9_Witness ==
    /\ Len(requests) = 2
    /\ args.user_auth_token # None
    /\ args.api_key # None

TokenMode == args.user_auth_token # None

\* C10 as stated: in token mode, without a stored app id the driver fails
\* with a Config error and makes no network call; otherwise the first
\* request carries the stored app id and the auth token.
C10_TokenModeAppId ==
    TokenMode =>
        IF config.app_id = None
        THEN result.kind = "Err" /\ result.err = ConfigError /\ requests = <<>>
        ELSE /\ Len(requests) >= 1
             /\ requests[1].headers = << Header("X-App-ID", <<config.app_id>>),
                                         Header("X-User-Auth", <<args.user_auth_token>>) >>

\* C10 amended: in token mode an attached image that cannot be used fails
\* the call with an Image error first; otherwise, if the stored
\* configuration cannot be loaded or holds no app id, the driver fails with
\* a Config error; in both cases no network call is made. Otherwise the
\* first request carries the stored app id and the auth token.
C10_TokenModeAppIdAfterImage ==
    TokenMode =>
        IF ImageUnusable
        THEN result.kind = "Err" /\ result.err = ImageError /\ requests = <<>>
        ELSE IF config.app_id = None
        THEN result.kind = "Err" /\ result.err = ConfigError /\ requests = <<>>
        ELSE \/ requests = <<>> /\ result = LoadFailed
             \/ /\ Len(requests) >= 1
                /\ requests[1].headers = << Header("X-App-ID", <<config.app_id>>),
                                            Header("X-User-Auth", <<args.user_auth_token>>) >>

\* a token-mode call with a usable image and no stored app id was refused
C10_Witness ==
    /\ TokenMode
    /\ args.image.some
    /\ ~ImageUnusable
    /\ config.app_id = None
    /\ result = NoAppId
    /\ requests = <<>>

\* the first response came back with a status outside 200..299
FirstRefused == first.sent /\ first.status \notin 200..299

RateLimitedText == <<"Blame Shapes, I got rate-limited. Try again later.">>
NotFoundText == <<"The resource couldn't be found.">>
ForbiddenText == <<"I don't have access to the AccessVerse.">>

\* C11: a non-success status of the first response ends the call with an
\* Api error, without run_tool call, prompt, spawn or second request; 429,
\* 404 and 403 give their own fixed message whatever the body is, every other
\* status a generic message that contains the status and the body text.
C11_FirstStatusError ==
    FirstRefused =>
        /\ pc = "done"
        /\ result.kind = "Err"
        /\ result.err = ApiError
        /\ run_tools = <<>>
        /\ prompts = <<>>
        /\ spawns = <<>>
        /\ Len(requests) = 1
        /\ CASE first.status = 429 -> result.text = RateLimitedText
             [] first.status = 404 -> result.text = NotFoundText
             [] first.status = 403 -> result.text = ForbiddenText
             [] OTHER ->
                  /\ result.text \notin {RateLimitedText, NotFoundText, ForbiddenText}
                  /\ Contains(result.text, <<ToString(first.status)>>)
                  /\ first.body # BodyReadError => Contains(result.text, first.body)

\* a 404 with a body was answered with the fixed message
C11_Witness ==
    /\ first.sent
    /\ first.status = 404
    /\ first.body = <<"busy">>
    /\ result = Err(ApiError, NotFoundText)

\* C12: the first request carries the run_shell_command schema and
\* tool_choice "auto"; a second request (sent on the structured and on the
\* fallback path only) has no tools member, tool_choice "none" and the
\* headers of the first request, names and values.
C12_ToolsAndToolChoice ==
    /\ Len(requests) >= 1 =>
          /\ requests[1].tools = <<"run_shell_command">>
          /\ requests[1].tool_choice = "auto"
    /\ Len(requests) >= 2 =>
          /\ Len(requests) = 2
          /\ path \in {"structured", "fallback"}
          /\ requests[2].tools = <<>>
          /\ requests[2].tool_choice = "none"
          /\ requests[2].headers = requests[1].headers
          /\ requests[2].headers # <<>>

\* the second request of the fallback path was sent in token mode
C12_Witness ==
    /\ Len(requests) = 2
    /\ path = "fallback"
    /\ args.user_auth_token # None
    /\ requests[2].tool_choice = "none"

\* the command of a well-formed tool_calls entry
CommandOf(tc) == from_str(tc.arguments.str).vstr

\* the prompt that let the k-th spawned command run: the k-th prompt
\* answered y
PromptOf(k) ==
    CHOOSE i \in 1..Len(prompts) :
        /\ prompts[i].read_ok
        /\ AnsweredYes(prompts[i].answer)
        /\ Cardinality({ j \in 1..i : prompts[j].read_ok /\ AnsweredYes(prompts[j].answer) }) = k

\* C13: the entries of the tool_calls array are handled one after the other
\* in array order. While run_tool runs for entry idx, the entries before it
\* have been prompted for and have their tool message, and no later entry
\* has been prompted for or run; run_tool is called once per entry with the
\* entry's command; the second request is sent after the last entry's
\* run_tool call has returned.
C13_Sequential ==
    path = "structured" =>
        LET n == Len(first.tool_calls.items)
        IN /\ Len(run_tools) <= n
           /\ \A i \in 1..Len(run_tools) : run_tools[i] = CommandOf(first.tool_calls.items[i])
           /\ Len(prompts) <= Len(run_tools)
           /\ Len(spawns) <= Len(prompts)
           /\ Len(outputs) <= Len(spawns)
           /\ Len(run_tools) <= Len(ToolMessages) + 1
           /\ Len(ToolMessages) <= Len(prompts)
           /\ pc \in {"run_tool", "output"} =>
                  /\ idx = Len(run_tools)
                  /\ Len(ToolMessages) = idx - 1
                  /\ Len(prompts) = (IF pc = "output" THEN idx ELSE idx - 1)
                  /\ Len(requests) = 1
           /\ Len(requests) = 2 =>
                  /\ pc \in {"await_second", "done"}
                  /\ Len(run_tools) = n
                  /\ Len(prompts) = n
                  /\ Len(ToolMessages) = n
                  /\ Len(outputs) = Len(spawns)

\* the second request was sent after two different commands ran
C13_Witness ==
    /\ path = "structured"
    /\ Len(first.tool_calls.items) = 2
    /\ Len(requests) = 2
    /\ Len(outputs) = 2
    /\ run_tools[1] # run_tools[2]

\* C14: for a confirmed command whose process was spawned run_tool returns
\* Ok - seen as the tool message appended for it: with the text
\* (tick)command(tick) succeeded:\n(stdout) and succeeded = true after a
\* successful exit, with (tick)command(tick) failed:\n(stderr) and
\* succeeded = false otherwise (src/main.rs returns the text only); the
\* non-zero exit does not end the call with an error.
C14_RunToolTemplates ==
    \A k \in 1..Len(outputs) :
        outputs[k].spawned =>
            LET o == outputs[k]
                i == PromptOf(k)
                cmd == prompts[i].command
            IN /\ i <= Len(ToolMessages)
               /\ ToolMessages[i].content.text =
                      (IF o.success
                       THEN <<Tick>> \o cmd \o <<Tick, " succeeded:\n">> \o from_utf8_lossy(o.stdout)
                       ELSE <<Tick>> \o cmd \o <<Tick, " failed:\n">> \o from_utf8_lossy(o.stderr))
               /\ build = "api" => ToolMessages[i].content.flag = o.success

\* a command exited non-zero with output on both streams
C14_Witness ==
    /\ build = "api"
    /\ Len(outputs) = 1
    /\ outputs[1].spawned
    /\ ~outputs[1].success
    /\ outputs[1].stdout # outputs[1].stderr
    /\ Len(ToolMessages) = 1
    /\ ToolMessages[1].content.flag = FALSE

\* C15: when the confirmed command cannot be spawned the call ends at once
\* with a Tool error: no tool message for that command, no later prompt, no
\* second request; a command that ran and exited non-zero gets its tool
\* message instead.
C15_SpawnFailure ==
    \A k \in 1..Len(outputs) :
        IF ~outputs[k].spawned
        THEN /\ k = Len(outputs)
             /\ pc = "done"
             /\ result.kind = "Err"
             /\ result.err = ToolError
             /\ PromptOf(k) = Len(prompts)
             /\ Len(prompts) = Len(run_tools)
             /\ Len(ToolMessages) = Len(run_tools) - 1
             /\ Len(requests) = 1
        ELSE PromptOf(k) <= Len(ToolMessages)

\* the second command of an array could not be spawned after the first ran
C15_Witness ==
    /\ Len(outputs) = 2
    /\ outputs[1].spawned
    /\ ~outputs[2].spawned
    /\ Len(ToolMessages) = 1
    /\ result.err = ToolError

\* run_tool call i has returned
Returned(i) == ~(i = Len(run_tools) /\ pc \in {"run_tool", "output"})

\* the k-th spawn was made by run_tool call i
SpawnedBy(k, i) == k \in 1..Len(spawns) /\ PromptOf(k) = i

\* nothing but whitespace: splitting on whitespace leaves no word
Blank(s) == \A j \in 1..Len(s) : s[j] \in Whitespace

\* C16 as stated: run_tool called with a command that is empty after
\* splitting on whitespace returns a Tool error and spawns no process.
C16_EmptyCommandToolError ==
    \A i \in 1..Len(run_tools) :
        Blank(run_tools[i]) =>
            /\ \A k \in 1..Len(spawns) : ~SpawnedBy(k, i)
            /\ Returned(i) => (pc = "done" /\ result.kind = "Err" /\ result.err = ToolError)

\* C16 amended: run_tool called with a command that is empty after splitting
\* on whitespace spawns no process; it asks for confirmation like for any
\* command and returns the Tool error "Empty command" once the answer is y;
\* any other answer returns the cancellation outcome, an answer that cannot
\* be read an Input error (and an unavailable working directory a Tool error
\* before the prompt).
C16_EmptyCommandAfterConfirmation ==
    \A i \in 1..Len(run_tools) :
        Blank(run_tools[i]) =>
            /\ \A k \in 1..Len(spawns) : ~SpawnedBy(k, i)
            /\ Returned(i) =>
                  IF Len(prompts) < i
                  THEN pc = "done" /\ result.kind = "Err" /\ result.err = ToolError
                  ELSE IF ~prompts[i].read_ok
                  THEN pc = "done" /\ result.kind = "Err" /\ result.err = InputError
                  ELSE IF AnsweredYes(prompts[i].answer)
                  THEN pc = "done" /\ result = Err(ToolError, <<"Empty command">>)
                  ELSE /\ i <= Len(ToolMessages)
                       /\ ToolMessages[i].content.text = CancelText

\* a blank command was confirmed and refused
C16_Witness ==
    /\ Len(run_tools) = 1
    /\ run_tools[1] = <<" ">>
    /\ Len(prompts) = 1
    /\ AnsweredYes(prompts[1].answer)
    /\ result = Err(ToolError, <<"Empty command">>)
    /\ spawns = <<>>

\* the prompt holds the letters t, e, x, t in a row, in either case
HasText(p) ==
    \E i \in 1..(Len(p) - 3) :
        /\ p[i] \in {"t", "T"}
        /\ p[i + 1] \in {"e", "E"}
        /\ p[i + 2] \in {"x", "X"}
        /\ p[i + 3] \in {"t", "T"}

ExtractPrefix == <<"Extract the text from this image: ">>

\* C17: the text of the user message sent is the prompt as given when no
\* image is attached, ExtractPrefix followed by the prompt when an image is
\* attached and the prompt contains "text" in any case, and the prompt as
\* given when an image is attached and it does not.
C17_AdjustedPrompt ==
    \A i \in 1..Len(requests) :
        LET c == requests[i].messages[1].content
        IN /\ requests[i].messages[1].role = "user"
           /\ c.text = (IF args.image.some /\ HasText(args.prompt)
                        THEN ExtractPrefix \o args.prompt
                        ELSE args.prompt)
           /\ c.kind = (IF args.image.some THEN "parts" ELSE "text")

\* a prompt with the word in mixed case was sent with an image
C17_Witness ==
    /\ Len(requests) >= 1
    /\ args.image.some
    /\ args.prompt = <<"T", "e", "X", "t", "?">>
    /\ requests[1].messages[1].content.text = ExtractPrefix \o args.prompt

\* the second response was received with a success status and parsed
SecondOk == second.sent /\ second.status \in 200..299 /\ second.parses

\* C18: after a tool round trip, structured or fallback, with a successful
\* second response the driver returns the content of that response's first
\* choice, or "No response from tool execution." when that content is absent
\* or not a string; the content of the first response is not what it returns.
C18_SecondContentOrStandIn ==
    (path \in {"structured", "fallback"} /\ SecondOk) =>
        /\ pc = "done"
        /\ result.kind = "Ok"
        /\ result.text = (IF second.message /\ second.content.kind = "string"
                          THEN second.content.str
                          ELSE <<"No response from tool execution.">>)
        /\ (ContentString(first) /\ first.content # second.content) =>
               result.text # first.content.str

\* the stand-in was returned although the first response had a content
C18_Witness ==
    /\ path = "structured"
    /\ SecondOk
    /\ second.content.kind = "other"
    /\ ContentString(first)
    /\ result = Ok(<<"No response from tool execution.">>)

\* C19: the progress indicator is not on the terminal while run_tool waits
\* for the confirmation, and it is on the terminal again while the second
\* request is in flight (where the build has an indicator).
C19_HiddenThenResumed ==
    /\ pc = "run_tool" => ~shown(pb)
    /\ (pc = "await_second" /\ pb # NoBar) => shown(pb)

\* an entry of the array is not usable as it stands
Malformed(tc) ==
    \/ tc.id.kind # "string"
    \/ ~tc.fn
    \/ tc.arguments.kind # "string"
    \/ LET parsed == from_str(tc.arguments.str)
       IN \/ ~parsed.ok
          \/ parsed.kind # "object"
          \/ parsed.key # "\"command\""
          \/ parsed.vkind # "string"

\* C20: when the loop comes to an entry without a string id, without
\* function.arguments, with arguments that are not a string, that do not
\* parse as a JSON object or that hold no string command, the call ends with
\* an Api error; run_tool is not called for that entry (nor for a later one).
C20_MalformedEntry ==
    path = "structured" =>
        \A k \in 1..Len(first.tool_calls.items) :
            (/\ Malformed(first.tool_calls.items[k])
             /\ \A j \in 1..(k - 1) : ~Malformed(first.tool_calls.items[j])) =>
                /\ Len(run_tools) < k
                /\ Len(ToolMessages) = k - 1 =>
                       /\ pc = "done"
                       /\ result.kind = "Err"
                       /\ result.err = ApiError
                       /\ Len(requests) = 1

\* the second entry named its command "cmd"; the first had run
C20_Witness ==
    /\ path = "structured"
    /\ Len(first.tool_calls.items) = 2
    /\ first.tool_calls.items[2].arguments = JStr(ArgNoCommand)
    /\ Len(ToolMessages) = 1
    /\ Len(outputs) = 1
    /\ result = Err(ApiError, <<"Missing command parameter">>)

\* C21: the driver never retries. At most two requests are sent in a call;
\* the second one exists only after a first response with a success status
\* that parsed and asked for a tool (a tool_calls array, or else an enveloped
\* content), and only when every run_tool call has returned Ok, that is,
\* has its tool message and no process that could not be spawned.
C21_NoRetry ==
    /\ Len(requests) <= 2
    /\ Len(requests) >= 1 => requests[1].tool_choice = "auto"
    /\ Len(requests) = 2 =>
          /\ requests[2].tool_choice = "none"
          /\ FirstOk
          /\ FirstHasArray \/ FirstEnveloped
          /\ Len(ToolMessages) = Len(run_tools)
          /\ \A k \in 1..Len(outputs) : outputs[k].spawned
          /\ \A i \in 1..Len(prompts) : prompts[i].read_ok
    /\ (first.sent /\ ~FirstOk) => Len(requests) = 1
    /\ (pc = "done" /\ second # NoResponse) => Len(requests) = 2

\* both requests failed to be answered well: the second could not be sent
C21_Witness ==
    /\ pc = "done"
    /\ Len(requests) = 2
    /\ second = SendFailed
    /\ Len(run_tools) >= 1
    /\ result.kind = "Err"

\* C23: a call of ask_shapesai is self-contained. A second call with the
\* arguments of this one, made on any other stored configuration, builds the
\* same first request and returns the same early result as on this stored
\* configuration: what is stored has no part in the call.
C23_SelfContained ==
    caller = "direct" =>
        \A cfg \in InitConfigs :
            LET this == first_request(build, args, config, TRUE, FreshCall)
                other == first_request(build, args, cfg, TRUE, FreshCall)
            IN /\ other.requests = this.requests
               /\ other.result = this.result

\* C23 (amended): a call without a token is self-contained: on any stored
\* configuration, loading or not, it builds the same first request, returns
\* the same early result and, once the commands have run, builds the same
\* second request. A call with a token reads the stored application id: it
\* does the same on every stored configuration that loads and holds the same
\* application id, and on nothing else that is stored.
C23_StoredAppIdOnly ==
    caller = "direct" =>
        \A cfg \in InitConfigs, ok \in BOOLEAN :
            (args.user_auth_token = None \/ (ok /\ cfg.app_id = config.app_id)) =>
                /\ (pc = "await_first" \/ requests = <<>>) =>
                      first_request(build, args, cfg, ok, FreshCall)
                        = first_request(build, args, config, TRUE, FreshCall)
                /\ pc \in {"run_tool", "output"} =>
                      second_request(build, args, cfg, ok, Cur)
                        = second_request(build, args, config, TRUE, Cur)

\* a call with a key, made while a token and an application id are stored,
\* went through both requests
C23_Witness ==
    /\ caller = "direct"
    /\ args.user_auth_token = None
    /\ args.api_key # None
    /\ config.user_auth_token # None
    /\ config.app_id # None
    /\ Len(requests) = 2
    /\ pc = "done"
    /\ result.kind = "Ok"

\* the prompts answered y among the first n
YesAmong(n) == { j \in 1..n : j <= Len(prompts) /\ prompts[j].read_ok
                                 /\ AnsweredYes(prompts[j].answer) }

\* entry k is the first malformed entry of the array
FirstMalformed(k) ==
    /\ k \in 1..Len(first.tool_calls.items)
    /\ Malformed(first.tool_calls.items[k])
    /\ \A j \in 1..(k - 1) : ~Malformed(first.tool_calls.items[j])

\* C24: when the call ends because entry k of the array is malformed (Api
\* error) or because the run_tool call for entry k failed (Tool or Input
\* error), every entry before k has been prompted for and has its tool
\* message, every one of them that was confirmed has been spawned and has
\* returned; only the first request was sent, and it holds no tool message.
C24_PartialExecution ==
    (path = "structured" /\ pc = "done" /\ result.kind = "Err" /\ Len(requests) = 1) =>
        LET k == Len(ToolMessages) + 1
        IN /\ result.err = ApiError => (FirstMalformed(k) /\ Len(run_tools) = k - 1)
           /\ result.err \in {ToolError, InputError} =>
                  (Len(run_tools) = k /\ ~Malformed(first.tool_calls.items[k]))
           /\ Len(prompts) >= k - 1
           /\ \A j \in 1..(k - 1) : prompts[j].read_ok
           /\ Len(spawns) >= Cardinality(YesAmong(k - 1))
           /\ Len(outputs) >= Cardinality(YesAmong(k - 1))
           /\ \A j \in 1..Cardinality(YesAmong(k - 1)) : outputs[j].spawned
           /\ \A i \in 1..Len(requests[1].messages) : requests[1].messages[i].role # "tool"
           /\ second = NoResponse

\* the second entry had no id; the command of the first had run by then
C24_Witness ==
    /\ path = "structured"
    /\ pc = "done"
    /\ Len(first.tool_calls.items) = 2
    /\ first.tool_calls.items[2].id.kind = "absent"
    /\ Len(outputs) = 1
    /\ outputs[1].spawned
    /\ outputs[1].success
    /\ result = Err(ApiError, <<"Missing tool call ID">>)
    /\ Len(requests) = 1

\* C25: a command cancelled at the prompt does not end the call. Its tool
\* message with the cancellation outcome is appended, and the driver goes on:
\* to the next entry of the array, which is run if it is well-formed, or to
\* the second request. After a cancellation the call ends early only on
\* what follows it: a malformed next entry, a failing later run_tool call,
\* or the stored configuration failing to load for the second request.
C25_CancelDoesNotAbort ==
    \A i \in 1..Len(prompts) :
        (prompts[i].read_ok /\ ~AnsweredYes(prompts[i].answer)) =>
            /\ i <= Len(ToolMessages)
            /\ ToolMessages[i].tool_call_id # <<>>
            /\ ToolMessages[i].content.text = <<"Command execution cancelled by user.">>
            /\ (path = "structured" /\ i < Len(first.tool_calls.items)
                  /\ ~Malformed(first.tool_calls.items[i + 1])) => Len(run_tools) > i
            /\ i = Len(run_tools) =>
                  \/ Len(requests) = 2
                  \/ /\ pc = "done"
                     /\ result.kind = "Err"
                     /\ \/ /\ result.err = ApiError
                           /\ path = "structured"
                           /\ FirstMalformed(i + 1)
                        \/ /\ result.err = ConfigError
                           /\ args.user_auth_token # None

\* the first of two commands was cancelled, the second ran, and the second
\* request was sent
C25_Witness ==
    /\ path = "structured"
    /\ Len(prompts) = 2
    /\ prompts[1].answer = <<"n">>
    /\ Len(spawns) = 1
    /\ Len(outputs) = 1
    /\ Len(requests) = 2
    /\ Len(requests[2].messages) = 4

\* the tool messages in the messages of request n
SentToolMessages(n) == SelectSeq(requests[n].messages, LAMBDA m : m.role = "tool")

\* C26: a first response whose tool_calls is an empty array takes the
\* structured path: nothing is run and nobody is asked; the second request
\* carries the user message and an assistant message with an empty
\* tool_calls array, and the reply is that of the second response, the
\* content of the first is not looked at. (With a token the stored
\* configuration is loaded again for the second request; the call ends with
\* a Config error when that fails.)
C26_EmptyArray ==
    (FirstHasArray /\ first.tool_calls.items = <<>>) =>
        /\ path = "structured"
        /\ run_tools = <<>>
        /\ prompts = <<>>
        /\ spawns = <<>>
        /\ \/ Len(requests) = 2
           \/ /\ pc = "done"
              /\ args.user_auth_token # None
              /\ result.kind = "Err"
              /\ result.err = ConfigError
        /\ Len(requests) = 2 =>
              /\ Len(requests[2].messages) = 2
              /\ requests[2].messages[1] = requests[1].messages[1]
              /\ requests[2].messages[1].role = "user"
              /\ requests[2].messages[2].role = "assistant"
              /\ requests[2].messages[2].tool_calls = <<>>
        /\ (pc = "done" /\ SecondOk) =>
              /\ result.kind = "Ok"
              /\ result.text = (IF second.message /\ second.content.kind = "string"
                                THEN second.content.str
                                ELSE <<"No response from tool execution.">>)

\* the first response had an empty array and an envelope as content; the
\* reply is the content of the second response
C26_Witness ==
    /\ FirstHasArray
    /\ first.tool_calls.items = <<>>
    /\ FirstEnveloped
    /\ pc = "done"
    /\ result = Ok(<<"d", "o", "n", "e">>)
    /\ Len(requests) = 2

\* the second response asks for a tool: it has a tool_calls array or an
\* envelope as content
SecondAsksForTool ==
    /\ SecondOk
    /\ second.message
    /\ \/ second.tool_calls.kind = "array"
       \/ /\ second.content.kind = "string"
          /\ Len(second.content.str) >= 2
          /\ second.content.str[1] = Open
          /\ second.content.str[Len(second.content.str)] = Close

\* C27: a second response that has a tool_calls array or an envelope as
\* content is not taken as a tool request. The call is over with that
\* response's content as its reply; every run_tool call and every prompt
\* was made before the second request and has its tool message in it, and
\* there is no third request.
C27_SecondNeverInterpreted ==
    SecondAsksForTool =>
        /\ pc = "done"
        /\ result.kind = "Ok"
        /\ second.content.kind = "string" => result.text = second.content.str
        /\ Len(requests) = 2
        /\ Len(run_tools) = Len(SentToolMessages(2))
        /\ Len(prompts) = Len(SentToolMessages(2))
        /\ Len(spawns) <= Len(SentToolMessages(2))

\* the second response had an array and an envelope; the envelope came back
\* as the reply after the one command of the first response
C27_Witness ==
    /\ SecondAsksForTool
    /\ second.tool_calls.kind = "array"
    /\ Len(run_tools) = 1
    /\ Len(spawns) = 1
    /\ pc = "done"
    /\ result.kind = "Ok"
    /\ Len(result.text) >= 2
    /\ result.text[1] = Open

SecondRefused == second.sent /\ second.status \notin 200..299

\* C28: a non-success status of the second response ends the call with an
\* Api error whose message is "Second API request failed with status: ",
\* the status, ". Response: " and the body text, for 429, 404 and 403 as for
\* any other status. Every confirmed command has been spawned and has
\* returned by then, and nothing is run after it.
C28_SecondStatusGeneric ==
    SecondRefused =>
        /\ pc = "done"
        /\ result.kind = "Err"
        /\ result.err = ApiError
        /\ result.text \notin {RateLimitedText, NotFoundText, ForbiddenText}
        /\ StartsWith(result.text, <<"Second API request failed with status: ",
                                     ToString(second.status), ". Response: ">>)
        /\ EndsWith(result.text, IF second.body = BodyReadError
                                 THEN <<"No response body">> ELSE second.body)
        /\ Len(requests) = 2
        /\ Len(spawns) = Cardinality(YesAmong(Len(prompts)))
        /\ Len(outputs) = Len(spawns)
        /\ Len(run_tools) = Len(SentToolMessages(2))

\* the second request was refused with 404 after a command had run
C28_Witness ==
    /\ second.sent
    /\ second.status = 404
    /\ Len(spawns) = 1
    /\ Len(outputs) = 1
    /\ outputs[1].success
    /\ pc = "done"
    /\ result.kind = "Err"

\* the last command was a login, and it is over
LoginOver == cli.op = "none" /\ cli.last \in {"login", "login1", "login2"}

\* C22: whatever sequence of login, set_shape and logout commands has run
\* on an empty stored configuration, succeeding or failing at any step, the
\* stored configuration never holds an api_key and a user_auth_token
\* together, and after a login that succeeded it holds exactly one of them,
\* the one that login was for.
C22_OneCredential ==
    /\ ~(config.api_key # None /\ config.user_auth_token # None)
    /\ (LoginOver /\ cli.outcome.kind = "Ok") =>
          /\ (config.api_key # None) # (config.user_auth_token # None)
          /\ cli.last = "login1" => config.api_key # None
          /\ cli.last = "login2" => config.user_auth_token # None

\* a token login succeeded while a key was stored; the key is gone
C22_Witness ==
    /\ LoginOver
    /\ cli.last = "login2"
    /\ cli.outcome.kind = "Ok"
    /\ cli.before.api_key # None
    /\ config.api_key = None
    /\ config.user_auth_token # None

\* C29: after any sequence of login, set_shape and logout commands on an
\* empty stored configuration, a stored user_auth_token comes with a stored
\* app_id. So no call made with the stored token fails with "No app ID set
\* for user auth token.": not the validation calls of login and set_shape,
\* and not an ask on the stored configuration, whatever the question and the
\* model, at its first or at its second request.
C29_TokenHasAppId ==
    /\ config.user_auth_token # None => config.app_id # None
    /\ result # NoAppId
    /\ pc = "idle" =>
          \A q \in Questions(build), mo \in ModelOverrides :
              LET c == ask_args(config, q.prompt, mo, q.image)
              IN c.ok =>
                   /\ first_request(build, c.args, config, TRUE, FreshCall).result # NoAppId
                   /\ second_request(build, c.args, config, TRUE, FreshCall).result # NoAppId

\* set_shape validated a username with the stored token and stored it
C29_Witness ==
    /\ cli.op = "none"
    /\ cli.last = "set_shape"
    /\ cli.outcome.kind = "Ok"
    /\ config.user_auth_token # None
    /\ config.app_id = APP_ID
    /\ config.username # None

\* C30: while a login runs, and after a login that failed at any step, the
\* stored api_key and user_auth_token are what they were when it started
\* (generated ids and, for method 2, the app_id may have been stored). When
\* a login has changed one of them, its validation call had returned a
\* non-empty reply.
C30_FailedLoginKeepsCredentials ==
    LET same == /\ config.api_key = cli.before.api_key
                /\ config.user_auth_token = cli.before.user_auth_token
    IN /\ cli.op \in {"login1", "login2"} => same
       /\ (LoginOver /\ cli.outcome.kind = "Err") => same
       /\ (LoginOver /\ ~same) =>
             /\ cli.outcome.kind = "Ok"
             /\ cli.validated.kind = "Ok"
             /\ cli.validated.text # <<>>

\* a token login on a stored key failed on an empty validation reply: the
\* key is still stored, and so is the app_id the login had saved
C30_Witness ==
    /\ LoginOver
    /\ cli.last = "login2"
    /\ cli.outcome.kind = "Err"
    /\ cli.validated = Ok(<<>>)
    /\ cli.before.api_key # None
    /\ cli.before.app_id = None
    /\ config.api_key = cli.before.api_key
    /\ config.app_id = APP_ID

\* C31: ask on a stored configuration without user_id or without channel_id
\* returns a Config error and sends nothing, whether a key or a token is
\* stored with it; the requests ask does send with a token carry neither
\* X-User-ID nor X-Channel-ID.
C31_AskNeedsIds ==
    caller = "ask" =>
        /\ (config.user_id = None \/ config.channel_id = None) =>
              /\ pc = "done"
              /\ result.kind = "Err"
              /\ result.err = ConfigError
              /\ requests = <<>>
              /\ first = NoResponse
              /\ spawns = <<>>
        /\ args.user_auth_token # None =>
              \A i \in 1..Len(requests) : \A h \in 1..Len(requests[i].headers) :
                  requests[i].headers[h].name \notin {"X-User-ID", "X-Channel-ID"}

\* a token and its app_id are stored, the user_id is not: ask has returned
\* the "No user ID set" error
C31_Witness ==
    /\ caller = "ask"
    /\ config.user_auth_token # None
    /\ config.app_id # None
    /\ config.user_id = None
    /\ config.channel_id # None
    /\ pc = "done"
    /\ result = Err(ConfigError, <<"No user ID set. Run ", Tick, "yuchi --login", Tick,
                                   " first.">>)
    /\ requests = <<>>

\* the command ask would return a Config error before it calls ask_shapesai,
\* whatever the question, the model and the image
AskRefused ==
    \A q \in Questions(build), mo \in ModelOverrides :
        LET c == ask_args(config, q.prompt, mo, q.image)
        IN ~c.ok /\ c.err.kind = "Err" /\ c.err.err = ConfigError

\* C32: a logout that succeeded leaves the default configuration, all six
\* members absent, whatever was stored before. From then on and until a
\* login succeeds no credential is stored, so set_shape returns a Config
\* error without calling ask_shapesai and sends nothing, and ask would
\* return a Config error before its call as well.
C32_LogoutClears ==
    /\ (cli.op = "none" /\ cli.last = "logout" /\ cli.outcome.kind = "Ok") =>
          /\ cli.cleared
          /\ config = DefaultConfig
          /\ config.api_key = None /\ config.app_id = None
          /\ config.user_auth_token = None /\ config.username = None
          /\ config.user_id = None /\ config.channel_id = None
    /\ cli.cleared =>
          /\ config.api_key = None
          /\ config.user_auth_token = None
          /\ cli.op # "set_shape"
          /\ caller # "set_shape"
          /\ (cli.op = "none" /\ cli.last = "set_shape") =>
                /\ cli.outcome.kind = "Err"
                /\ cli.outcome.err = ConfigError
                /\ cli.validated = NoResult
                /\ requests = <<>>
          /\ pc = "idle" => AskRefused

\* after a logout a login failed, which stored the ids it had generated;
\* set_shape then returned the "No API key or user auth token set" error
C32_Witness ==
    /\ cli.cleared
    /\ cli.op = "none"
    /\ cli.last = "set_shape"
    /\ cli.before.user_id # None
    /\ cli.before.channel_id # None
    /\ cli.outcome = Err(ConfigError, <<"No API key or user auth token set. Run ",
                                        Tick, "yuchi --login", Tick, " first.">>)
    /\ config = cli.before

\* the number of run_tool calls the first response allows
ExecutorBound ==
    IF path = "structured" THEN Len(first.tool_calls.items)
    ELSE IF path = "fallback" THEN 1
    ELSE 0

\* the call is over, with a reply or with one of the five kinds of error
Terminated ==
    /\ pc = "done"
    /\ \/ result.kind = "Ok"
       \/ /\ result.kind = "Err"
          /\ result.err \in {ApiError, ConfigError, ToolError, InputError, ImageError}

\* C33: when every send, every confirmation prompt and every child process
\* returns, a call of ask_shapesai that has started comes to its end with a
\* reply or a typed error; run_tool is never called more often than the
\* tool_calls array of the first response has entries, once at most on the
\* fallback path and not at all otherwise.
C33_Terminates ==
    /\ [](Len(run_tools) <= ExecutorBound)
    /\ (pc # "idle") ~> Terminated

\* a call came to its end with a reply after run_tool had been called for
\* each of the two entries of the array
C33_Witness ==
    /\ Terminated
    /\ result.kind = "Ok"
    /\ path = "structured"
    /\ Len(first.tool_calls.items) = 2
    /\ Len(run_tools) = 2
    /\ Len(outputs) = 2
    /\ Len(requests) = 2

====
